---- MODULE Spec2Model ----
(***************************************************************************)
(* Model of claude_export.py: the pipeline of export_session over one      *)
(* session log: parse_jsonl reads the records, extract_metadata scans      *)
(* them, build_conversation merges the assistant messages (pass 1) and     *)
(* emits the turns (pass 2, with _normalize_tool_result).                  *)
(*                                                                         *)
(* Encoding of Python values                                               *)
(*   - a dict is a record; a key that is absent from the dict is absent    *)
(*     from the record, and Get(d, k, default) is d.get(k, default);       *)
(*   - free text (text, thinking, tool output, prompts) is a sequence of   *)
(*     one-character strings, so that strip(), join() and slicing are      *)
(*     computed; identifiers (message ids, tool ids, tool names, session   *)
(*     ids, ...) are atomic strings, "" being the empty string;            *)
(*   - a timestamp is an opaque string: it is modelled as a natural, 0     *)
(*     being the empty string; the event at position i of the log carries  *)
(*     timestamp i unless its shape says it has none;                      *)
(*   - a `content` value of a message or of a tool_result is tagged with   *)
(*     its Python type: [kind |-> "str", val |-> text],                    *)
(*     [kind |-> "list", items |-> sequence], [kind |-> "none"] (None).    *)
(***************************************************************************)
EXTENDS Integers, Sequences, FiniteSets, TLC

VARIABLES
    lines,               \* export_session: the parsed records of the log
    pc,                  \* position in cmd_export / export_session
    idx,                 \* index of the next record of the running loop
    meta,                \* extract_metadata: the dict `meta`
    assistant_msgs,      \* build_conversation: msg_id -> merged entry
    tool_map,            \* build_conversation: tool_use_id -> tool_name
    conversation,        \* build_conversation: the emitted turns
    seen_assistant_ids,  \* build_conversation: ids already walked in pass 2
    origin,              \* history: origin[t] = position in `relevant` of
                         \* the event that made turn t (not program state)
    file,                \* history: the raw lines parse_jsonl has read
    exc,                 \* the exception in flight, "" when there is none
    output,              \* the output file of export_session
    exit_code,           \* the exit status of the process, -1 while it runs
    stderr,              \* what the process has printed on stderr
    cursor,              \* SessionBrowser.cursor
    preview_focus,       \* SessionBrowser.preview_focus
    filter_mode,         \* SessionBrowser.filter_mode
    filter_text,         \* SessionBrowser.filter_text
    show_help,           \* SessionBrowser.show_help
    collapsed,           \* SessionBrowser.collapsed
    list_items,          \* SessionBrowser.items
    last_key,            \* the key the last iteration of run() has read
    preview_cache,       \* SessionBrowser._preview_cache
    preview_cache_order, \* SessionBrowser._preview_cache_order
    used,                \* history: the cached session ids, least recently
                         \* requested first (not program state)
    seen_upto,           \* history: the sessions the cursor has been on
    revisits             \* history: the requests for a session already seen

\* the state of the process around export_session
cli == <<exc, output, exit_code, stderr>>

\* the state of the session browser; its scroll offsets and its status
\* line only matter to the drawing and are left out
tui == <<cursor, preview_focus, filter_mode, filter_text, show_help, collapsed,
         list_items, last_key, preview_cache, preview_cache_order, used,
         seen_upto, revisits>>

vars == <<lines, pc, idx, meta, assistant_msgs, tool_map, conversation,
          seen_assistant_ids, origin, file, cli, tui>>

----------------------------------------------------------------------------
(* Bounds and program constants *)

MaxLen == 3

TRUNCATE_LIMIT == 50000

----------------------------------------------------------------------------
(* Python primitives *)

Get(d, k, default) == IF k \in DOMAIN d THEN d[k] ELSE default

None == "<None>"

Whitespace == {" ", "\n", "\t"}

RECURSIVE Strip(_)
Strip(s) ==
    IF s = <<>> THEN s
    ELSE IF Head(s) \in Whitespace THEN Strip(Tail(s))
    ELSE IF s[Len(s)] \in Whitespace THEN Strip(SubSeq(s, 1, Len(s) - 1))
    ELSE s

RECURSIVE Join(_, _)
Join(sep, parts) ==
    IF parts = <<>> THEN <<>>
    ELSE IF Len(parts) = 1 THEN parts[1]
    ELSE parts[1] \o sep \o Join(sep, Tail(parts))

Digit(d) == CASE d = 0 -> "0" [] d = 1 -> "1" [] d = 2 -> "2" [] d = 3 -> "3"
              [] d = 4 -> "4" [] d = 5 -> "5" [] d = 6 -> "6" [] d = 7 -> "7"
              [] d = 8 -> "8" [] d = 9 -> "9"

RECURSIVE Str(_)
Str(n) == IF n < 10 THEN <<Digit(n)>> ELSE Str(n \div 10) \o <<Digit(n % 10)>>

StrNone == <<"N", "o", "n", "e">>

IsStr(c) == c.kind = "str"

IsList(c) == c.kind = "list"

StrOf(s) == [kind |-> "str", val |-> s]

ListOf(items) == [kind |-> "list", items |-> items]

NoneContent == [kind |-> "none"]

IntContent(n) == [kind |-> "int", val |-> n]

\* A JSON value that is not an object, found where the code expects a dict:
\* the record holds the name of its Python type.  `.get` on it raises.
NotADict(t) == [py |-> t]

IsDict(v) == "py" \notin DOMAIN v

PyTypes == {"NoneType", "int", "str", "list"}

\* A JSON value that is not a string, found where the code expects a str:
\* the one-element sequence holding the name of its Python type.  `.strip`
\* on it raises, and so does `str.join` over a list that holds it.
NotAStr(t) == <<t>>

IsString(v) == ~ (Len(v) = 1 /\ v[1] \in PyTypes)

Put(f, k, v) == [x \in DOMAIN f \cup {k} |-> IF x = k THEN v ELSE f[x]]

EmptyMap == [x \in {} |-> None]

----------------------------------------------------------------------------
(* _normalize_tool_result *)

TruncationMarker(n) ==
    <<"\n", "\n", ".", ".", ".", " ", "[", "t", "r", "u", "n", "c", "a", "t",
      "e", "d", ",", " ">> \o Str(n)
      \o <<" ", "c", "h", "a", "r", "s", " ", "t", "o", "t", "a", "l", "]">>

RECURSIVE TextParts(_)
TextParts(items) ==
    IF items = <<>> THEN <<>>
    ELSE IF Get(Head(items), "type", None) = "text"
         THEN <<Get(Head(items), "text", <<>>)>> \o TextParts(Tail(items))
         ELSE TextParts(Tail(items))

\* variant: the items of a list that are not of kind text are kept
ResultText_KeepAll(content) ==
    IF IsList(content)
    THEN Join(<<"\n">>, [j \in 1..Len(content.items) |->
                            Get(content.items[j], "text", <<>>)])
    ELSE IF IsStr(content) THEN content.val
    ELSE IF content.kind = "int" THEN Str(content.val)
    ELSE StrNone

ResultText(content) ==
    IF IsList(content) THEN Join(<<"\n">>, TextParts(content.items))
    ELSE IF IsStr(content) THEN content.val
    ELSE IF content.kind = "int" THEN Str(content.val)
    ELSE StrNone

\* variant: a text of exactly TRUNCATE_LIMIT characters is cut too
Truncate_AtLimit(text) ==
    IF Len(text) >= TRUNCATE_LIMIT
    THEN SubSeq(text, 1, TRUNCATE_LIMIT) \o TruncationMarker(Len(text))
    ELSE text

Truncate(text) ==
    IF Len(text) > TRUNCATE_LIMIT
    THEN SubSeq(text, 1, TRUNCATE_LIMIT) \o TruncationMarker(Len(text))
    ELSE text

MapGet(m, k, default) == IF k \in DOMAIN m THEN m[k] ELSE default

\* variant: a result with no is_error field counts as an error
normalize_tool_result_ErrorDefault(block, tmap) ==
    LET tool_use_id == Get(block, "tool_use_id", "")
        tool_name   == MapGet(tmap, tool_use_id, "unknown")
        is_error    == Get(block, "is_error", TRUE)
        content     == Get(block, "content", StrOf(<<>>))
    IN  [type        |-> "tool_result",
         tool_use_id |-> tool_use_id,
         tool_name   |-> tool_name,
         is_error    |-> is_error,
         text        |-> Truncate(ResultText(content))]

normalize_tool_result(block, tmap) ==
    LET tool_use_id == Get(block, "tool_use_id", "")
        tool_name   == MapGet(tmap, tool_use_id, "unknown")
        is_error    == Get(block, "is_error", FALSE)
        content     == Get(block, "content", StrOf(<<>>))
    IN  [type        |-> "tool_result",
         tool_use_id |-> tool_use_id,
         tool_name   |-> tool_name,
         is_error    |-> is_error,
         text        |-> Truncate(ResultText(content))]

\* the exception _normalize_tool_result raises on block, "" when it returns:
\* `item.get` in the loop, then `"\n".join(parts)`
NormalizeRaises(block) ==
    LET content == Get(block, "content", StrOf(<<>>)) IN
    IF ~ IsList(content) THEN ""
    ELSE IF \E j \in 1..Len(content.items) : ~ IsDict(content.items[j])
    THEN "AttributeError"
    ELSE IF \E j \in 1..Len(content.items) :
                /\ Get(content.items[j], "type", None) = "text"
                /\ ~ IsString(Get(content.items[j], "text", <<>>))
    THEN "TypeError"
    ELSE ""

----------------------------------------------------------------------------
(* extract_metadata *)

EmptyDict == [x \in {} |-> None]

EmptyMeta ==
    [session_id |-> "", project |-> "", model |-> "", date |-> 0,
     git_branch |-> "", cwd |-> ""]

\* one iteration of `for obj in lines`
\* variant: a later value replaces the one already found
MetaStep_LastWins(m, obj) ==
    LET m1 == IF Get(obj, "sessionId", "") # ""
              THEN [m EXCEPT !.session_id = obj.sessionId] ELSE m
        m2 == IF Get(obj, "gitBranch", "") # ""
              THEN [m1 EXCEPT !.git_branch = obj.gitBranch] ELSE m1
        m3 == IF Get(obj, "cwd", "") # ""
              THEN [m2 EXCEPT !.cwd = obj.cwd] ELSE m2
        m4 == IF Get(obj, "timestamp", 0) # 0
              THEN [m3 EXCEPT !.date = obj.timestamp] ELSE m3
        msg == Get(obj, "message", EmptyDict)
    IN  IF Get(obj, "type", None) = "assistant" /\ Get(msg, "model", "") # ""
        THEN [m4 EXCEPT !.model = msg.model]
        ELSE m4

MetaStep(m, obj) ==
    LET m1 == IF m.session_id = "" /\ Get(obj, "sessionId", "") # ""
              THEN [m EXCEPT !.session_id = obj.sessionId] ELSE m
        m2 == IF m1.git_branch = "" /\ Get(obj, "gitBranch", "") # ""
              THEN [m1 EXCEPT !.git_branch = obj.gitBranch] ELSE m1
        m3 == IF m2.cwd = "" /\ Get(obj, "cwd", "") # ""
              THEN [m2 EXCEPT !.cwd = obj.cwd] ELSE m2
        m4 == IF m3.date = 0 /\ Get(obj, "timestamp", 0) # 0
              THEN [m3 EXCEPT !.date = obj.timestamp] ELSE m3
        msg == Get(obj, "message", EmptyDict)
    IN  IF Get(obj, "type", None) = "assistant"
           /\ m4.model = "" /\ Get(msg, "model", "") # ""
        THEN [m4 EXCEPT !.model = msg.model]
        ELSE m4

\* the exception one iteration raises, "" when it completes: `obj.get`
\* always, `msg.get` only while no model has been found
MetaRaises(m, obj) ==
    IF ~ IsDict(obj) THEN "AttributeError"
    ELSE IF /\ Get(obj, "type", None) = "assistant"
            /\ m.model = ""
            /\ ~ IsDict(Get(obj, "message", EmptyDict))
    THEN "AttributeError"
    ELSE ""

----------------------------------------------------------------------------
(* build_conversation: the filter and pass 1 *)

\* variant: the sidechain flag is not looked at
IsRelevant_WithSidechain(obj) == Get(obj, "type", None) \in {"user", "assistant"}

IsRelevant(obj) ==
    /\ Get(obj, "type", None) \in {"user", "assistant"}
    /\ ~ Get(obj, "isSidechain", FALSE)

Relevant(log) == SelectSeq(log, IsRelevant)

relevant == Relevant(lines)

NotText(b) == b.type # "text"

NotThinking(b) == b.type # "thinking"

ExistingIds(blocks) ==
    {blocks[j].tool_id : j \in {k \in 1..Len(blocks) : blocks[k].type = "tool_use"}}

\* the default content of an assistant message is the empty list
AssistantContent(msg) == Get(msg, "content", ListOf(<<>>))

\* variant: the text block keeps a slot after the thinking block
MergeText_InSlot(blocks, text) ==
    LET IsThinking(b) == b.type = "thinking"
        Other(b)      == b.type \notin {"thinking", "text"}
    IN  SelectSeq(blocks, IsThinking) \o <<[type |-> "text", text |-> text]>>
        \o SelectSeq(blocks, Other)

\* a non-blank text fragment replaces the text block and goes to the end
MergeText(blocks, text) ==
    Append(SelectSeq(blocks, NotText), [type |-> "text", text |-> text])

\* variant: the thinking block is appended like a text block
MergeThinking_Appended(blocks, thinking) ==
    Append(SelectSeq(blocks, NotThinking), [type |-> "thinking", text |-> thinking])

\* a non-blank thinking fragment replaces the thinking block and goes first
MergeThinking(blocks, thinking) ==
    <<[type |-> "thinking", text |-> thinking]>> \o SelectSeq(blocks, NotThinking)

\* variant: every delivery of a tool_use block is added
MergeToolUse_Always(blocks, block) ==
    Append(blocks, [type      |-> "tool_use",
                    tool_id   |-> Get(block, "id", ""),
                    tool_name |-> Get(block, "name", "unknown"),
                    input     |-> Get(block, "input", EmptyDict)])

\* a tool_use block is added unless its id is already in the entry
MergeToolUse(blocks, block) ==
    LET tool_id == Get(block, "id", "") IN
    IF tool_id \notin ExistingIds(blocks)
    THEN Append(blocks, [type      |-> "tool_use",
                         tool_id   |-> tool_id,
                         tool_name |-> Get(block, "name", "unknown"),
                         input     |-> Get(block, "input", EmptyDict)])
    ELSE blocks

\* variant: the name recorded first is kept
RecordTool_KeepFirst(tmap, tool_id, tool_name) ==
    IF tool_id \in DOMAIN tmap THEN tmap ELSE Put(tmap, tool_id, tool_name)

\* tool_map[tool_id] = tool_name
RecordTool(tmap, tool_id, tool_name) == Put(tmap, tool_id, tool_name)

\* one iteration of `for block in content`; st = [blocks, tool_map]
Pass1Block(st, block) ==
    LET btype == Get(block, "type", "") IN
    IF btype = "text" THEN
        LET text == Get(block, "text", <<>>) IN
        IF Strip(text) # <<>>
        THEN [st EXCEPT !.blocks = MergeText(st.blocks, text)]
        ELSE st
    ELSE IF btype = "thinking" THEN
        LET thinking == Get(block, "thinking", <<>>) IN
        IF Strip(thinking) # <<>>
        THEN [st EXCEPT !.blocks = MergeThinking(st.blocks, thinking)]
        ELSE st
    ELSE IF btype = "tool_use" THEN
        [blocks   |-> MergeToolUse(st.blocks, block),
         tool_map |-> RecordTool(st.tool_map, Get(block, "id", ""),
                                 Get(block, "name", "unknown"))]
    ELSE st

RECURSIVE Pass1Blocks(_, _)
Pass1Blocks(st, content) ==
    IF content = <<>> THEN st
    ELSE Pass1Blocks(Pass1Block(st, Head(content)), Tail(content))

\* variant: an event without message id starts a new entry
Pass1Entry_Fresh(msgs, obj) ==
    LET msg    == Get(obj, "message", EmptyDict)
        msg_id == Get(msg, "id", "")
        entry  == IF msg_id \notin DOMAIN msgs \/ msg_id = ""
                  THEN [blocks      |-> <<>>,
                        seen_types  |-> {},
                        timestamp   |-> Get(obj, "timestamp", 0),
                        stop_reason |-> Get(msg, "stop_reason", None)]
                  ELSE msgs[msg_id]
        e1     == IF Get(msg, "stop_reason", None) \notin {None, ""}
                  THEN [entry EXCEPT !.stop_reason = msg.stop_reason]
                  ELSE entry
    IN  [e1 EXCEPT !.timestamp =
            IF Get(obj, "timestamp", 0) # 0 THEN obj.timestamp ELSE e1.timestamp]

\* the entry of msg_id after the header of the loop body (lines 351-362)
Pass1Entry(msgs, obj) ==
    LET msg    == Get(obj, "message", EmptyDict)
        msg_id == Get(msg, "id", "")
        entry  == IF msg_id \notin DOMAIN msgs
                  THEN [blocks      |-> <<>>,
                        seen_types  |-> {},
                        timestamp   |-> Get(obj, "timestamp", 0),
                        stop_reason |-> Get(msg, "stop_reason", None)]
                  ELSE msgs[msg_id]
        e1     == IF Get(msg, "stop_reason", None) \notin {None, ""}
                  THEN [entry EXCEPT !.stop_reason = msg.stop_reason]
                  ELSE entry
    IN  [e1 EXCEPT !.timestamp =
            IF Get(obj, "timestamp", 0) # 0 THEN obj.timestamp ELSE e1.timestamp]

\* one iteration of the loop of pass 1; st = [assistant_msgs, tool_map]
Pass1Step(st, obj) ==
    LET msg     == Get(obj, "message", EmptyDict)
        msg_id  == Get(msg, "id", "")
        content == AssistantContent(msg)
    IN  IF Get(obj, "type", None) # "assistant" THEN st
        ELSE IF ~ IsList(content) THEN st
        ELSE LET entry == Pass1Entry(st.assistant_msgs, obj)
                 res   == Pass1Blocks([blocks   |-> entry.blocks,
                                       tool_map |-> st.tool_map], content.items)
             IN  [assistant_msgs |-> Put(st.assistant_msgs, msg_id,
                                         [entry EXCEPT !.blocks = res.blocks]),
                  tool_map       |-> res.tool_map]

\* `block.get`, `text.strip()` and `thinking.strip()` of the block loop
BlockRaises(block) ==
    \/ ~ IsDict(block)
    \/ /\ Get(block, "type", "") = "text"
       /\ ~ IsString(Get(block, "text", <<>>))
    \/ /\ Get(block, "type", "") = "thinking"
       /\ ~ IsString(Get(block, "thinking", <<>>))

\* the exception one iteration of pass 1 raises, "" when it completes
Pass1Raises(obj) ==
    LET msg == Get(obj, "message", EmptyDict) IN
    IF Get(obj, "type", None) # "assistant" THEN ""
    ELSE IF ~ IsDict(msg) THEN "AttributeError"
    ELSE IF ~ IsList(AssistantContent(msg)) THEN ""
    ELSE IF \E j \in 1..Len(AssistantContent(msg).items) :
                BlockRaises(AssistantContent(msg).items[j])
    THEN "AttributeError"
    ELSE ""

----------------------------------------------------------------------------
(* The logs the model runs on *)

TA == <<"a">>

TB == <<"b", " ">>

TBlank == <<" ">>

TK == <<"k">>

TJ == <<" ", "j">>

TextBlock(t) == [type |-> "text", text |-> t]

ThinkingBlock(t) == [type |-> "thinking", thinking |-> t]

ToolUse(id, name, input) ==
    [type |-> "tool_use", id |-> id, name |-> name, input |-> input]

ToolResult(id, content) ==
    [type |-> "tool_result", tool_use_id |-> id, content |-> content]

ToolError(id, content) ==
    [type |-> "tool_result", tool_use_id |-> id, content |-> content,
     is_error |-> TRUE]

Assistant(id, blocks) ==
    [type |-> "assistant", message |-> [id |-> id, content |-> ListOf(blocks)]]

User(content) == [type |-> "user", message |-> [content |-> content]]

Stamped(ev) == [ev |-> ev, stamped |-> TRUE]

Unstamped(ev) == [ev |-> ev, stamped |-> FALSE]

AssistantShapes ==
    { Stamped(Assistant("m1", <<TextBlock(TA)>>)),
      Stamped(Assistant("m1", <<TextBlock(TB)>>)),
      Stamped(Assistant("m1", <<TextBlock(TBlank)>>)),
      Stamped(Assistant("m1", <<ThinkingBlock(TK)>>)),
      Unstamped(Assistant("m1", <<ThinkingBlock(TJ)>>)),
      Stamped(Assistant("m1", <<TextBlock(TA), ThinkingBlock(TK)>>)),
      Stamped(Assistant("m1", <<ToolUse("t1", "grep", "in1")>>)),
      Stamped(Assistant("m1", <<ToolUse("t1", "bash", "in2")>>)),
      Stamped([type |-> "assistant", sessionId |-> "s2",
               message |-> [id |-> "m2", model |-> "mo2",
                            stop_reason |-> "end_turn",
                            content |-> ListOf(<<TextBlock(TB)>>)]]),
      Stamped(Assistant("m2", <<ToolUse("t2", "read", "in1")>>)),
      Stamped([type |-> "assistant",
               message |-> [id |-> "m1", content |-> StrOf(TA)]]) }

UserShapes ==
    { Stamped([type |-> "user", sessionId |-> "s2", gitBranch |-> "g2",
               cwd |-> "c2", message |-> [content |-> StrOf(<<"h">>)]]),
      Stamped(User(StrOf(TBlank))),
      Stamped(User(ListOf(<<ToolResult("t1", StrOf(<<"o">>))>>))),
      Stamped(User(ListOf(
          <<ToolError("t2", ListOf(<<[type |-> "text", text |-> <<"x">>],
                                     [type |-> "image"],
                                     [type |-> "text", text |-> <<"y">>]>>)),
            ToolResult("t1", NoneContent)>>))),
      Stamped(User(ListOf(<<TextBlock(TA), TextBlock(TBlank), TextBlock(TB)>>))),
      Stamped(User(ListOf(<<TextBlock(TBlank)>>))),
      Stamped(User(NoneContent)) }

OtherShapes ==
    { Stamped([type |-> "system", isSidechain |-> FALSE]) }

SidechainShapes ==
    { Stamped([type |-> "assistant", isSidechain |-> TRUE, sessionId |-> "s1",
               gitBranch |-> "g1", cwd |-> "c1",
               message |-> [id |-> "m1", model |-> "mo1",
                            content |-> ListOf(<<ThinkingBlock(<<"z">>),
                                                 ToolUse("t1", "task", "in3")>>)]]),
      Unstamped([type |-> "user", isSidechain |-> TRUE, sessionId |-> "s1",
                 message |-> [content |-> ListOf(<<ToolResult("t2", StrOf(<<"s">>))>>)]]) }

Shapes == AssistantShapes \cup UserShapes \cup OtherShapes \cup SidechainShapes

\* the record at position i of the log
Stamp(shape, i) ==
    IF shape.stamped THEN Put(shape.ev, "timestamp", i) ELSE shape.ev

----------------------------------------------------------------------------
(* export_session *)

\* SessionBrowser.__init__
NewBrowser ==
    /\ cursor = 0
    /\ preview_focus = FALSE
    /\ filter_mode = FALSE
    /\ filter_text = <<>>
    /\ show_help = FALSE
    /\ collapsed = {}
    /\ list_items = <<>>
    /\ last_key = "none"
    /\ preview_cache = EmptyMap
    /\ preview_cache_order = <<>>
    /\ used = <<>>
    /\ seen_upto = 0
    /\ revisits = 0

\* no output file has been written
NoFile == [exists |-> FALSE]

Init ==
    /\ lines = <<>>
    /\ pc = "parse"
    /\ idx = 1
    /\ meta = EmptyMeta
    /\ assistant_msgs = EmptyMap
    /\ tool_map = EmptyMap
    /\ conversation = <<>>
    /\ seen_assistant_ids = {}
    /\ origin = <<>>
    /\ file = <<>>
    /\ exc = ""
    /\ output = NoFile
    /\ exit_code = -1
    /\ stderr = ""
    /\ NewBrowser

\* parse_jsonl: one more record of the file is read and appended
ParseLine ==
    /\ pc = "parse"
    /\ Len(lines) < MaxLen
    /\ \E shape \in Shapes : lines' = Append(lines, Stamp(shape, Len(lines) + 1))
    /\ UNCHANGED <<pc, idx, meta, assistant_msgs, tool_map, conversation,
                   seen_assistant_ids, origin,
                   file, cli, tui>>

\* parse_jsonl: end of file
ParseEnd ==
    /\ pc = "parse"
    /\ pc' = "extract"
    /\ UNCHANGED <<lines, idx, meta, assistant_msgs, tool_map, conversation,
                   seen_assistant_ids, origin,
                   file, cli, tui>>

RECURSIVE MetaFold(_, _)
MetaFold(m, log) ==
    IF log = <<>> THEN m ELSE MetaFold(MetaStep(m, Head(log)), Tail(log))

extract_metadata(log) == MetaFold(EmptyMeta, log)

\* the exception of the first iteration that raises, "" when the loop ends
RECURSIVE MetaFoldRaises(_, _)
MetaFoldRaises(m, log) ==
    IF log = <<>> THEN ""
    ELSE IF MetaRaises(m, Head(log)) # "" THEN MetaRaises(m, Head(log))
    ELSE MetaFoldRaises(MetaStep(m, Head(log)), Tail(log))

\* an exception leaves the function it was raised in
Raise(e) ==
    /\ exc' = e
    /\ pc' = "raised"
    /\ UNCHANGED <<lines, idx, meta, assistant_msgs, tool_map, conversation,
                   seen_assistant_ids, origin, file, output, exit_code, stderr, tui>>

ExtractMetadata ==
    /\ pc = "extract"
    /\ MetaFoldRaises(EmptyMeta, lines) = ""
    /\ meta' = extract_metadata(lines)
    /\ pc' = "pass1"
    /\ UNCHANGED <<lines, idx, assistant_msgs, tool_map, conversation,
                   seen_assistant_ids, origin,
                   file, cli, tui>>

\* extract_metadata raises
ExtractRaise ==
    /\ pc = "extract"
    /\ MetaFoldRaises(EmptyMeta, lines) # ""
    /\ Raise(MetaFoldRaises(EmptyMeta, lines))

\* pass 1, an assistant event with list content
Pass1Merge ==
    /\ pc = "pass1"
    /\ idx <= Len(relevant)
    /\ LET obj == relevant[idx]
           msg == Get(obj, "message", EmptyDict)
           st  == Pass1Step([assistant_msgs |-> assistant_msgs,
                             tool_map       |-> tool_map], obj)
       IN  /\ Pass1Raises(obj) = ""
           /\ Get(obj, "type", None) = "assistant"
           /\ IsList(AssistantContent(msg))
           /\ assistant_msgs' = st.assistant_msgs
           /\ tool_map' = st.tool_map
    /\ idx' = idx + 1
    /\ UNCHANGED <<lines, pc, meta, conversation, seen_assistant_ids, origin,
                   file, cli, tui>>

\* pass 1, the two `continue` branches
Pass1Skip ==
    /\ pc = "pass1"
    /\ idx <= Len(relevant)
    /\ LET obj == relevant[idx]
           msg == Get(obj, "message", EmptyDict)
       IN  /\ Pass1Raises(obj) = ""
           /\ \/ Get(obj, "type", None) # "assistant"
              \/ ~ IsList(AssistantContent(msg))
    /\ idx' = idx + 1
    /\ UNCHANGED <<lines, pc, meta, assistant_msgs, tool_map, conversation,
                   seen_assistant_ids, origin,
                   file, cli, tui>>

\* pass 1 raises on the event under the cursor
Pass1Raise ==
    /\ pc = "pass1"
    /\ idx <= Len(relevant)
    /\ Pass1Raises(relevant[idx]) # ""
    /\ Raise(Pass1Raises(relevant[idx]))

Pass1End ==
    /\ pc = "pass1"
    /\ idx > Len(relevant)
    /\ pc' = "pass2"
    /\ idx' = 1
    /\ conversation' = <<>>
    /\ seen_assistant_ids' = {}
    /\ UNCHANGED <<lines, meta, assistant_msgs, tool_map, origin,
                   file, cli, tui>>

----------------------------------------------------------------------------
(* build_conversation: pass 2 *)

\* the default content of a user message is the empty string
UserContent(msg) == Get(msg, "content", StrOf(<<>>))

IsToolResult(b) == Get(b, "type", None) = "tool_result"

HasToolResult(items) == \E j \in 1..Len(items) : IsToolResult(items[j])

\* variant: the results of one event are collected last first
NormalizeAll_Reversed(items, tmap) ==
    LET results == SelectSeq(items, IsToolResult)
    IN  [j \in 1..Len(results) |->
            normalize_tool_result(results[Len(results) + 1 - j], tmap)]

NormalizeAll(items, tmap) ==
    LET results == SelectSeq(items, IsToolResult)
    IN  [j \in 1..Len(results) |-> normalize_tool_result(results[j], tmap)]

RECURSIVE PromptTexts(_)
PromptTexts(items) ==
    IF items = <<>> THEN <<>>
    ELSE LET t == Get(Head(items), "text", <<>>) IN
         IF Get(Head(items), "type", None) = "text" /\ Strip(t) # <<>>
         THEN <<t>> \o PromptTexts(Tail(items))
         ELSE PromptTexts(Tail(items))

Turn(role, ts, blocks) == [role |-> role, timestamp |-> ts, blocks |-> blocks]

MsgIdOf(obj) == Get(Get(obj, "message", EmptyDict), "id", "")

\* The state of pass 2 is st = [conversation, seen_assistant_ids,
\* assistant_msgs, origin]; rel is the filtered log and i the position in
\* it of the event obj being walked.

Emit(st, turn, i) ==
    [st EXCEPT !.conversation = Append(@, turn), !.origin = Append(@, i)]

\* variant: results are attached to the last turn whatever its role
CanAttach_AnyRole(conv) == conv # <<>>

\* variant: results are never attached
CanAttach_Never(conv) == FALSE

\* `conversation and conversation[-1]["role"] == "assistant"`
CanAttach(conv) == conv # <<>> /\ conv[Len(conv)].role = "assistant"

\* user event, string content
OnUserString(st, obj, i) ==
    LET content == UserContent(Get(obj, "message", EmptyDict)) IN
    IF Strip(content.val) # <<>>
    THEN Emit(st, Turn("user", Get(obj, "timestamp", 0),
                       <<[type |-> "text", text |-> content.val]>>), i)
    ELSE st

\* user event, list content with a tool_result block.  The turn of an
\* assistant message shares its block list with the entry of pass 1, so
\* extending the one extends the other.
OnUserToolResult(st, rel, obj, i, tmap) ==
    LET content      == UserContent(Get(obj, "message", EmptyDict))
        tool_results == NormalizeAll(content.items, tmap)
        last         == Len(st.conversation)
    IN  IF tool_results # <<>> /\ CanAttach(st.conversation)
        THEN [st EXCEPT
                 !.conversation[last].blocks = @ \o tool_results,
                 !.assistant_msgs[MsgIdOf(rel[st.origin[last]])].blocks =
                     @ \o tool_results]
        ELSE IF tool_results # <<>>
        THEN Emit(st, Turn("tool", Get(obj, "timestamp", 0), tool_results), i)
        ELSE st

\* user event, list content without tool_result block
\* variant: the text is added to the user turn before it, if there is one
OnUserText_JoinAcross(st, obj, i) ==
    LET content == UserContent(Get(obj, "message", EmptyDict))
        texts   == PromptTexts(content.items)
        last    == Len(st.conversation)
    IN  IF texts # <<>> /\ last > 0 /\ st.conversation[last].role = "user"
        THEN [st EXCEPT !.conversation[last].blocks[1].text =
                            @ \o <<"\n", "\n">> \o Join(<<"\n", "\n">>, texts)]
        ELSE IF texts # <<>>
        THEN Emit(st, Turn("user", Get(obj, "timestamp", 0),
                           <<[type |-> "text",
                              text |-> Join(<<"\n", "\n">>, texts)]>>), i)
        ELSE st

OnUserText(st, obj, i) ==
    LET content == UserContent(Get(obj, "message", EmptyDict))
        texts   == PromptTexts(content.items)
    IN  IF texts # <<>>
        THEN Emit(st, Turn("user", Get(obj, "timestamp", 0),
                           <<[type |-> "text",
                              text |-> Join(<<"\n", "\n">>, texts)]>>), i)
        ELSE st

\* seen_assistant_ids.add(msg_id)
\* variant: the id is not recorded
MarkSeen_Forgotten(seen, msg_id) == seen

MarkSeen(seen, msg_id) == seen \cup {msg_id}

\* variant: an entry without blocks is emitted too
ShouldEmit_Always(msgs, msg_id) == msg_id \in DOMAIN msgs

\* `msg_id in assistant_msgs` and `entry["blocks"]`
ShouldEmit(msgs, msg_id) ==
    msg_id \in DOMAIN msgs /\ msgs[msg_id].blocks # <<>>

\* assistant event
OnAssistant(st, obj, i) ==
    LET msg_id == MsgIdOf(obj) IN
    IF msg_id \in st.seen_assistant_ids THEN st
    ELSE LET marked == [st EXCEPT !.seen_assistant_ids = MarkSeen(@, msg_id)] IN
         IF ShouldEmit(st.assistant_msgs, msg_id)
         THEN Emit(marked, Turn("assistant",
                                st.assistant_msgs[msg_id].timestamp,
                                st.assistant_msgs[msg_id].blocks), i)
         ELSE marked

\* one iteration of the loop of pass 2
Pass2Step(st, rel, i, tmap) ==
    LET obj     == rel[i]
        content == UserContent(Get(obj, "message", EmptyDict))
    IN  IF Get(obj, "type", None) = "user" THEN
            IF IsStr(content) THEN OnUserString(st, obj, i)
            ELSE IF IsList(content) THEN
                IF HasToolResult(content.items)
                THEN OnUserToolResult(st, rel, obj, i, tmap)
                ELSE OnUserText(st, obj, i)
            ELSE st
        ELSE IF Get(obj, "type", None) = "assistant" THEN OnAssistant(st, obj, i)
        ELSE st

\* the exception of the first tool_result block that cannot be normalized
RECURSIVE NormalizeAllRaises(_)
NormalizeAllRaises(items) ==
    IF items = <<>> THEN ""
    ELSE IF IsToolResult(Head(items)) /\ NormalizeRaises(Head(items)) # ""
    THEN NormalizeRaises(Head(items))
    ELSE NormalizeAllRaises(Tail(items))

\* the exception one iteration of pass 2 raises, "" when it completes
Pass2Raises(obj) ==
    LET msg     == Get(obj, "message", EmptyDict)
        content == UserContent(msg)
    IN  IF Get(obj, "type", None) = "user" THEN
            IF ~ IsDict(msg) THEN "AttributeError"
            ELSE IF ~ IsList(content) THEN ""
            ELSE IF \E j \in 1..Len(content.items) : ~ IsDict(content.items[j])
            THEN "AttributeError"
            ELSE IF HasToolResult(content.items)
            THEN NormalizeAllRaises(content.items)
            ELSE IF \E j \in 1..Len(content.items) :
                        /\ Get(content.items[j], "type", None) = "text"
                        /\ ~ IsString(Get(content.items[j], "text", <<>>))
            THEN "AttributeError"
            ELSE ""
        ELSE IF Get(obj, "type", None) = "assistant" /\ ~ IsDict(msg)
        THEN "AttributeError"
        ELSE ""

Pass2State ==
    [conversation       |-> conversation,
     seen_assistant_ids |-> seen_assistant_ids,
     assistant_msgs     |-> assistant_msgs,
     origin             |-> origin]

\* the event under the cursor is a user event
AtUser ==
    /\ pc = "pass2"
    /\ idx <= Len(relevant)
    /\ Get(relevant[idx], "type", None) = "user"

\* the event under the cursor is an assistant event
AtAssistant ==
    /\ pc = "pass2"
    /\ idx <= Len(relevant)
    /\ Get(relevant[idx], "type", None) = "assistant"

CurContent == UserContent(Get(relevant[idx], "message", EmptyDict))

\* the iteration of pass 2 on the event under the cursor
Walk ==
    LET st == Pass2Step(Pass2State, relevant, idx, tool_map) IN
    /\ Pass2Raises(relevant[idx]) = ""
    /\ conversation' = st.conversation
    /\ seen_assistant_ids' = st.seen_assistant_ids
    /\ assistant_msgs' = st.assistant_msgs
    /\ origin' = st.origin
    /\ idx' = idx + 1
    /\ UNCHANGED <<lines, pc, meta, tool_map,
                   file, cli, tui>>

Pass2UserString == AtUser /\ IsStr(CurContent) /\ Walk

Pass2UserToolResult ==
    AtUser /\ IsList(CurContent) /\ HasToolResult(CurContent.items) /\ Walk

Pass2UserText ==
    AtUser /\ IsList(CurContent) /\ ~ HasToolResult(CurContent.items) /\ Walk

Pass2UserOther == AtUser /\ ~ IsStr(CurContent) /\ ~ IsList(CurContent) /\ Walk

Pass2AssistantSeen ==
    AtAssistant /\ MsgIdOf(relevant[idx]) \in seen_assistant_ids /\ Walk

Pass2Assistant ==
    AtAssistant /\ MsgIdOf(relevant[idx]) \notin seen_assistant_ids /\ Walk

\* pass 2 raises on the event under the cursor
Pass2Raise ==
    /\ pc = "pass2"
    /\ idx <= Len(relevant)
    /\ Pass2Raises(relevant[idx]) # ""
    /\ Raise(Pass2Raises(relevant[idx]))

Pass2End ==
    /\ pc = "pass2"
    /\ idx > Len(relevant)
    /\ pc' = "done"
    /\ UNCHANGED <<lines, idx, meta, assistant_msgs, tool_map, conversation,
                   seen_assistant_ids, origin,
                   file, cli, tui>>

----------------------------------------------------------------------------
(* build_conversation as a function of the log *)

RECURSIVE Pass1Fold(_, _)
Pass1Fold(st, rel) ==
    IF rel = <<>> THEN st ELSE Pass1Fold(Pass1Step(st, Head(rel)), Tail(rel))

RECURSIVE Pass2Fold(_, _, _, _)
Pass2Fold(st, rel, i, tmap) ==
    IF i > Len(rel) THEN st
    ELSE Pass2Fold(Pass2Step(st, rel, i, tmap), rel, i + 1, tmap)

build_conversation(log) ==
    LET rel == Relevant(log)
        p1  == Pass1Fold([assistant_msgs |-> EmptyMap, tool_map |-> EmptyMap], rel)
        p2  == Pass2Fold([conversation       |-> <<>>,
                          seen_assistant_ids |-> {},
                          assistant_msgs     |-> p1.assistant_msgs,
                          origin             |-> <<>>], rel, 1, p1.tool_map)
    IN  p2.conversation

----------------------------------------------------------------------------

Next ==
    \/ ParseLine
    \/ ParseEnd
    \/ ExtractMetadata
    \/ Pass1Merge
    \/ Pass1Skip
    \/ Pass1End
    \/ Pass2UserString
    \/ Pass2UserToolResult
    \/ Pass2UserText
    \/ Pass2UserOther
    \/ Pass2AssistantSeen
    \/ Pass2Assistant
    \/ Pass2End

Spec == Init /\ [][Next]_vars

TypeOK ==
    /\ pc \in {"resolve", "open", "parse", "extract", "pass1", "pass2", "done",
              "written", "raised", "exited", "crashed", "run", "loop", "quit",
              "draw", "payload"}
    /\ exit_code \in {-1, 0, 1}
    /\ output.exists => output.messages # <<>>
    /\ idx \in 1..(MaxLen + 1)
    /\ Len(origin) = Len(conversation)

----------------------------------------------------------------------------
(* export_session on records with absent and with ill-typed fields *)

\* records whose fields are of the expected types
PlainShapes ==
    { Stamped([type |-> "assistant",
               message |-> [id |-> "m1", model |-> "mo1",
                            content |-> ListOf(<<TextBlock(TA)>>)]]),
      Stamped(User(StrOf(<<"h">>))),
      Stamped(User(NoneContent)) }

\* records with absent fields
AbsentShapes ==
    { Unstamped([isSidechain |-> FALSE]),
      Unstamped([type |-> "assistant"]),
      Unstamped([type |-> "user"]),
      Unstamped([type |-> "assistant",
                 message |-> [content |-> ListOf(<<[type |-> "text"],
                                                   [type |-> "thinking"],
                                                   [type |-> "tool_use"],
                                                   [text |-> TA]>>)]]),
      Unstamped(User(ListOf(<<[type |-> "tool_result"]>>))),
      Unstamped(User(ListOf(<<[type |-> "text"], [text |-> TA]>>))),
      Unstamped(User(ListOf(
          <<[type |-> "tool_result",
             content |-> ListOf(<<[type |-> "text"], [text |-> TA]>>)]>>))) }

\* records with a field of another type than the code expects
MalformedShapes ==
    { Unstamped([type |-> "user", message |-> NotADict("NoneType")]),
      Unstamped([type |-> "assistant", message |-> NotADict("str")]),
      Unstamped(Assistant("m1", <<NotADict("str")>>)),
      Unstamped(User(ListOf(<<NotADict("int")>>))),
      Unstamped(Assistant("m1", <<[type |-> "text", text |-> NotAStr("NoneType")]>>)),
      Unstamped(Assistant("m1", <<[type |-> "thinking",
                                   thinking |-> NotAStr("int")]>>)),
      Unstamped(User(ListOf(<<[type |-> "text", text |-> NotAStr("NoneType")]>>))),
      Unstamped(User(ListOf(<<ToolResult("t1", ListOf(<<NotADict("str")>>))>>))),
      Unstamped(User(ListOf(
          <<ToolResult("t1", ListOf(<<[type |-> "text",
                                       text |-> NotAStr("NoneType")]>>))>>))) }

FieldShapes == PlainShapes \cup AbsentShapes \cup MalformedShapes

\* parse_jsonl: one more record, whatever its fields
ParseRecord ==
    /\ pc = "parse"
    /\ Len(lines) < MaxLen
    /\ \E shape \in FieldShapes : lines' = Append(lines, Stamp(shape, Len(lines) + 1))
    /\ UNCHANGED <<pc, idx, meta, assistant_msgs, tool_map, conversation,
                   seen_assistant_ids, origin, file, cli, tui>>

NextFields ==
    \/ ParseRecord
    \/ ParseEnd
    \/ ExtractMetadata
    \/ ExtractRaise
    \/ Pass1Merge
    \/ Pass1Skip
    \/ Pass1Raise
    \/ Pass1End
    \/ Pass2UserString
    \/ Pass2UserToolResult
    \/ Pass2UserText
    \/ Pass2UserOther
    \/ Pass2AssistantSeen
    \/ Pass2Assistant
    \/ Pass2Raise
    \/ Pass2End

SpecFields == Init /\ [][NextFields]_vars

----------------------------------------------------------------------------
(* cmd_export: resolve_session, export_session and the exit of the process.
   What the file system answers (whether the session is found, whether the
   session file can be opened and decoded, whether the output file can be
   opened for writing) is the environment's choice. *)

WellTypedShapes == PlainShapes \cup AbsentShapes

InitExport ==
    /\ lines = <<>>
    /\ pc = "resolve"
    /\ idx = 1
    /\ meta = EmptyMeta
    /\ assistant_msgs = EmptyMap
    /\ tool_map = EmptyMap
    /\ conversation = <<>>
    /\ seen_assistant_ids = {}
    /\ origin = <<>>
    /\ file = <<>>
    /\ exc = ""
    /\ output = NoFile
    /\ exit_code = -1
    /\ stderr = ""
    /\ NewBrowser

\* resolve_session returns a path that exists
ResolveFound ==
    /\ pc = "resolve"
    /\ pc' = "open"
    /\ UNCHANGED <<lines, idx, meta, assistant_msgs, tool_map, conversation,
                   seen_assistant_ids, origin, file, cli, tui>>

\* resolve_session finds nothing: a message on stderr and sys.exit(1)
ResolveNotFound ==
    /\ pc = "resolve"
    /\ stderr' = "Error: Could not find session"
    /\ exit_code' = 1
    /\ pc' = "exited"
    /\ UNCHANGED <<lines, idx, meta, assistant_msgs, tool_map, conversation,
                   seen_assistant_ids, origin, file, exc, output, tui>>

\* parse_jsonl: open(path) succeeds
OpenSession ==
    /\ pc = "open"
    /\ pc' = "parse"
    /\ UNCHANGED <<lines, idx, meta, assistant_msgs, tool_map, conversation,
                   seen_assistant_ids, origin, file, cli, tui>>

\* parse_jsonl: open(path) fails (a directory, no read permission)
OpenRaise ==
    /\ pc = "open"
    /\ Raise("OSError")

\* parse_jsonl: one more record with well-typed fields
ParseWellTyped ==
    /\ pc = "parse"
    /\ Len(lines) < MaxLen
    /\ \E shape \in WellTypedShapes :
           lines' = Append(lines, Stamp(shape, Len(lines) + 1))
    /\ UNCHANGED <<pc, idx, meta, assistant_msgs, tool_map, conversation,
                   seen_assistant_ids, origin, file, cli, tui>>

\* parse_jsonl: the next line of the file is not valid UTF-8
DecodeRaise ==
    /\ pc = "parse"
    /\ Raise("UnicodeDecodeError")

\* `if not messages`
\* variant: an empty turn sequence is exported like any other
NoMessages_Never(messages) == FALSE

NoMessages(messages) == messages = <<>>

\* export_session: raise ValueError("No messages found in session")
RaiseNoMessages ==
    /\ pc = "done"
    /\ NoMessages(conversation)
    /\ Raise("ValueError")

\* export_session: the document is written to the output file
WriteOutput ==
    /\ pc = "done"
    /\ ~ NoMessages(conversation)
    /\ output' = [exists |-> TRUE, messages |-> conversation, metadata |-> meta]
    /\ pc' = "written"
    /\ UNCHANGED <<lines, idx, meta, assistant_msgs, tool_map, conversation,
                   seen_assistant_ids, origin, file, exc, exit_code, stderr, tui>>

\* export_session: open(output_path, "w") fails
WriteRaise ==
    /\ pc = "done"
    /\ ~ NoMessages(conversation)
    /\ Raise("OSError")

\* cmd_export prints "Exported N messages to PATH"; main returns
Exported ==
    /\ pc = "written"
    /\ exit_code' = 0
    /\ pc' = "exited"
    /\ UNCHANGED <<lines, idx, meta, assistant_msgs, tool_map, conversation,
                   seen_assistant_ids, origin, file, exc, output, stderr, tui>>

\* the classes `except ValueError` catches
ValueErrors == {"ValueError", "UnicodeDecodeError"}

\* str(exc)
StrExc(e) ==
    IF e = "ValueError" THEN "No messages found in session"
    ELSE "'utf-8' codec can't decode byte"

\* cmd_export: except ValueError: the message on stderr and sys.exit(1)
CatchValueError ==
    /\ pc = "raised"
    /\ exc \in ValueErrors
    /\ stderr' = StrExc(exc)
    /\ exit_code' = 1
    /\ exc' = ""
    /\ pc' = "exited"
    /\ UNCHANGED <<lines, idx, meta, assistant_msgs, tool_map, conversation,
                   seen_assistant_ids, origin, file, output, tui>>

\* no handler in cmd_export or main: the interpreter prints the traceback
\* and the process ends with status 1
Uncaught ==
    /\ pc = "raised"
    /\ exc \notin ValueErrors
    /\ stderr' = "Traceback (most recent call last)"
    /\ exit_code' = 1
    /\ pc' = "crashed"
    /\ UNCHANGED <<lines, idx, meta, assistant_msgs, tool_map, conversation,
                   seen_assistant_ids, origin, file, exc, output, tui>>

NextExport ==
    \/ ResolveFound
    \/ ResolveNotFound
    \/ OpenSession
    \/ OpenRaise
    \/ ParseWellTyped
    \/ DecodeRaise
    \/ ParseEnd
    \/ ExtractMetadata
    \/ Pass1Merge
    \/ Pass1Skip
    \/ Pass1End
    \/ Pass2UserString
    \/ Pass2UserToolResult
    \/ Pass2UserText
    \/ Pass2UserOther
    \/ Pass2AssistantSeen
    \/ Pass2Assistant
    \/ Pass2End
    \/ RaiseNoMessages
    \/ WriteOutput
    \/ WriteRaise
    \/ Exported
    \/ CatchValueError
    \/ Uncaught

SpecExport == InitExport /\ [][NextExport]_vars

----------------------------------------------------------------------------
(* parse_jsonl on the text of the file.  A raw line is the sequence of its
   characters, line end included. *)

Digits == {Digit(d) : d \in 0..9}

\* a JSON integer without sign
IsIntText(s) ==
    /\ s # <<>>
    /\ \A j \in 1..Len(s) : s[j] \in Digits
    /\ Len(s) = 1 \/ s[1] # "0"

DigitValue(c) == CHOOSE d \in 0..9 : Digit(d) = c

RECURSIVE IntValue(_)
IntValue(s) ==
    IF s = <<>> THEN 0
    ELSE 10 * IntValue(SubSeq(s, 1, Len(s) - 1)) + DigitValue(s[Len(s)])

\* a JSON object of one member, the key one plain character and the
\* value an integer
IsObjectText(s) ==
    /\ Len(s) >= 7
    /\ s[1] = "{" /\ s[2] = "\"" /\ s[4] = "\"" /\ s[5] = ":"
    /\ s[3] \notin {"\"", "\\"}
    /\ s[Len(s)] = "}"
    /\ IsIntText(SubSeq(s, 6, Len(s) - 1))

IsNullText(s) == s = <<"n", "u", "l", "l">>

\* a JSON array, empty or of one integer
IsListText(s) ==
    /\ Len(s) >= 2
    /\ s[1] = "[" /\ s[Len(s)] = "]"
    /\ Len(s) = 2 \/ IsIntText(SubSeq(s, 2, Len(s) - 1))

\* a JSON string without escapes
IsStringText(s) ==
    /\ Len(s) >= 2
    /\ s[1] = "\"" /\ s[Len(s)] = "\""
    /\ \A j \in 2..(Len(s) - 1) : s[j] \notin {"\"", "\\", "\n", "\t"}

\* json.loads(s) returns; otherwise it raises JSONDecodeError
IsJson(s) ==
    IsObjectText(s) \/ IsIntText(s) \/ IsNullText(s) \/ IsListText(s)
        \/ IsStringText(s)

\* the value json.loads(s) returns
json_loads(s) ==
    IF IsObjectText(s)
    THEN [k \in {s[3]} |-> IntValue(SubSeq(s, 6, Len(s) - 1))]
    ELSE IF IsIntText(s) THEN NotADict("int")
    ELSE IF IsNullText(s) THEN NotADict("NoneType")
    ELSE IF IsListText(s) THEN NotADict("list")
    ELSE NotADict("str")

\* one iteration of `for line in f`
\* variant: a line that cannot be decoded ends the loop empty-handed
ParseStep_AbortOnError(acc, raw) ==
    LET line == Strip(raw) IN
    IF line = <<>> THEN acc
    ELSE IF IsJson(line) THEN Append(acc, json_loads(line))
    ELSE <<>>

ParseStep(acc, raw) ==
    LET line == Strip(raw) IN
    IF line = <<>> THEN acc
    ELSE IF IsJson(line) THEN Append(acc, json_loads(line))
    ELSE acc

RawLines ==
    { <<"\n">>,
      <<" ", "\t", "\n">>,
      <<"{", "\"", "a", "\"", ":", "1", "}", "\n">>,
      <<" ", "{", "\"", "b", "\"", ":", "2", "}", " ", "\n">>,
      <<"5", "\n">>,
      <<"n", "u", "l", "l", "\n">>,
      <<"[", "1", "]", "\n">>,
      <<"\"", "s", "\"", "\n">>,
      <<"n", "o", "t", " ", "j", "s", "o", "n", "\n">>,
      <<"{", "\"", "a", "\"", ":">> }

\* the next line of the file is raw
ReadLine(raw) ==
    /\ pc = "parse"
    /\ Len(file) < MaxLen
    /\ file' = Append(file, raw)
    /\ lines' = ParseStep(lines, raw)
    /\ UNCHANGED <<pc, idx, meta, assistant_msgs, tool_map, conversation,
                   seen_assistant_ids, origin, cli, tui>>

\* `if line:` fails
ReadBlank == \E raw \in RawLines : Strip(raw) = <<>> /\ ReadLine(raw)

\* lines.append(json.loads(line))
ReadJson ==
    \E raw \in RawLines : Strip(raw) # <<>> /\ IsJson(Strip(raw)) /\ ReadLine(raw)

\* except json.JSONDecodeError: continue
ReadMalformed ==
    \E raw \in RawLines : Strip(raw) # <<>> /\ ~ IsJson(Strip(raw)) /\ ReadLine(raw)

NextParse ==
    \/ ReadBlank
    \/ ReadJson
    \/ ReadMalformed
    \/ ParseEnd

SpecParse == Init /\ [][NextParse]_vars

----------------------------------------------------------------------------
(* extract_metadata on records that carry, or lack, the metadata fields *)

MetaShapes ==
    { Stamped([type |-> "assistant", isSidechain |-> TRUE, sessionId |-> "s1",
               gitBranch |-> "g1", cwd |-> "c1",
               message |-> [id |-> "m1", model |-> "mo1",
                            content |-> ListOf(<<TextBlock(TA)>>)]]),
      Unstamped([type |-> "user", sessionId |-> "s2", gitBranch |-> "g2",
                 cwd |-> "c2",
                 message |-> [model |-> "mu", content |-> StrOf(<<"h">>)]]),
      Unstamped([type |-> "assistant", sessionId |-> "", gitBranch |-> "g3",
                 message |-> [id |-> "m2", model |-> "",
                              content |-> ListOf(<<TextBlock(TB)>>)]]),
      Stamped([type |-> "assistant",
               message |-> [id |-> "m2", model |-> "mo2",
                            content |-> ListOf(<<TextBlock(TB)>>)]]),
      Stamped([type |-> "system", sessionId |-> "s3", cwd |-> "c3"]),
      Unstamped([type |-> "user"]) }

\* parse_jsonl: one more record
ParseMetaRecord ==
    /\ pc = "parse"
    /\ Len(lines) < MaxLen
    /\ \E shape \in MetaShapes : lines' = Append(lines, Stamp(shape, Len(lines) + 1))
    /\ UNCHANGED <<pc, idx, meta, assistant_msgs, tool_map, conversation,
                   seen_assistant_ids, origin, file, cli, tui>>

NextMeta ==
    \/ ParseMetaRecord
    \/ ParseEnd
    \/ ExtractMetadata

SpecMeta == Init /\ [][NextMeta]_vars

----------------------------------------------------------------------------
(* export_session on tool results whose text is as long as TRUNCATE_LIMIT *)

\* the tool_result events read are at most this many
MaxResults == 2

\* a text of n characters
Text(n) == [j \in 1..n |-> "x"]

ResultShapes ==
    { Stamped(Assistant("m1", <<ToolUse("t1", "grep", "in1")>>)),
      Stamped(User(ListOf(<<ToolResult("t1", StrOf(<<"o">>))>>))),
      Stamped(User(ListOf(<<ToolResult("t1", StrOf(Text(TRUNCATE_LIMIT)))>>))),
      Stamped(User(ListOf(<<ToolResult("t1", StrOf(Text(TRUNCATE_LIMIT + 1)))>>))),
      Stamped(User(ListOf(
          <<ToolResult("t2", ListOf(<<TextBlock(Text(TRUNCATE_LIMIT - 2)),
                                      [type |-> "image"],
                                      TextBlock(<<"y">>)>>))>>))),
      Stamped(User(ListOf(
          <<ToolError("t1", ListOf(<<TextBlock(Text(TRUNCATE_LIMIT - 2)),
                                     TextBlock(<<"y", "z">>)>>))>>))),
      Stamped(User(ListOf(
          <<ToolResult("t2", ListOf(<<TextBlock(TA), [type |-> "image"],
                                      TextBlock(TB)>>)),
            ToolResult("t1", NoneContent),
            ToolResult("t3", IntContent(42))>>))) }

\* parse_jsonl: one more record
ParseResultRecord ==
    /\ pc = "parse"
    /\ Len(lines) < MaxResults
    /\ \E shape \in ResultShapes : lines' = Append(lines, Stamp(shape, Len(lines) + 1))
    /\ UNCHANGED <<pc, idx, meta, assistant_msgs, tool_map, conversation,
                   seen_assistant_ids, origin, file, cli, tui>>

NextResults ==
    \/ ParseResultRecord
    \/ ParseEnd
    \/ ExtractMetadata
    \/ Pass1Merge
    \/ Pass1Skip
    \/ Pass1End
    \/ Pass2UserToolResult
    \/ Pass2AssistantSeen
    \/ Pass2Assistant
    \/ Pass2End

SpecResults == Init /\ [][NextResults]_vars

----------------------------------------------------------------------------
(* export_session on assistant events that carry no message id *)

\* an assistant event whose message has no id key
NoId(content) == [type |-> "assistant", message |-> [content |-> content]]

NoIdShapes ==
    { Stamped(NoId(ListOf(<<TextBlock(TA)>>))),
      Stamped(NoId(ListOf(<<TextBlock(TBlank)>>))),
      Unstamped(NoId(ListOf(<<ThinkingBlock(TK)>>))),
      Stamped(NoId(ListOf(<<ToolUse("t1", "grep", "in1")>>))),
      Stamped(NoId(StrOf(TA))),
      Stamped(Assistant("", <<TextBlock(TB)>>)),
      Stamped(Assistant("m1", <<TextBlock(TB)>>)),
      Stamped(User(StrOf(<<"h">>))),
      Stamped(User(ListOf(<<ToolResult("t1", StrOf(<<"o">>))>>))) }

ParseNoIdRecord ==
    /\ pc = "parse"
    /\ Len(lines) < MaxLen
    /\ \E shape \in NoIdShapes : lines' = Append(lines, Stamp(shape, Len(lines) + 1))
    /\ UNCHANGED <<pc, idx, meta, assistant_msgs, tool_map, conversation,
                   seen_assistant_ids, origin, file, cli, tui>>

NextNoId ==
    \/ ParseNoIdRecord
    \/ ParseEnd
    \/ ExtractMetadata
    \/ Pass1Merge
    \/ Pass1Skip
    \/ Pass1End
    \/ Pass2UserString
    \/ Pass2UserToolResult
    \/ Pass2AssistantSeen
    \/ Pass2Assistant
    \/ Pass2End

SpecNoId == Init /\ [][NextNoId]_vars

----------------------------------------------------------------------------
(* SessionBrowser: the list of sessions, the filter and the keys *)

Min(S) == CHOOSE x \in S : \A y \in S : x <= y

Max(S) == CHOOSE x \in S : \A y \in S : y <= x

\* filter_text is at most this long
MaxFilter == 1

\* self.sessions after _load_sessions: each session has a one-segment
\* project name and no project_path
Sessions ==
    << [session_id |-> <<"1">>, project |-> <<"p", "a">>,
        first_prompt |-> <<"a", "b">>, git_branch |-> <<>>],
       [session_id |-> <<"2">>, project |-> <<"q">>,
        first_prompt |-> <<"l">>, git_branch |-> <<"j">>],
       [session_id |-> <<"3">>, project |-> <<"p", "a">>,
        first_prompt |-> <<"G">>, git_branch |-> <<>>] >>

\* _display_project_name on such a session
DisplayProjectName(s) == s.project

UpperToLower == ("A" :> "a") @@ ("B" :> "b") @@ ("G" :> "g")

\* str.lower
Lower(text) ==
    [j \in 1..Len(text) |->
        IF text[j] \in DOMAIN UpperToLower THEN UpperToLower[text[j]] ELSE text[j]]

\* `sub in text`
Contains(sub, text) ==
    \E k \in 0..(Len(text) - Len(sub)) : SubSeq(text, k + 1, k + Len(sub)) = sub

Searchable(s) ==
    Lower(Join(<<" ">>, <<DisplayProjectName(s), s.session_id, s.first_prompt,
                          s.git_branch>>))

\* the filter of _build_items lets session s through
Matches(s, ft) == ft = <<>> \/ Contains(Lower(ft), Searchable(s))

ListItem(kind, data, project) == [kind |-> kind, data |-> data, project |-> project]

\* `order`: the project names in the order of their first session
RECURSIVE ProjectOrder(_, _)
ProjectOrder(sess, seen) ==
    IF sess = <<>> THEN <<>>
    ELSE IF DisplayProjectName(Head(sess)) \in seen
    THEN ProjectOrder(Tail(sess), seen)
    ELSE <<DisplayProjectName(Head(sess))>>
         \o ProjectOrder(Tail(sess), seen \cup {DisplayProjectName(Head(sess))})

RECURSIVE SessionItems(_, _)
SessionItems(sess, pname) ==
    IF sess = <<>> THEN <<>>
    ELSE (IF DisplayProjectName(Head(sess)) = pname
          THEN <<ListItem("session", Head(sess), pname)>> ELSE <<>>)
         \o SessionItems(Tail(sess), pname)

RECURSIVE GroupItems(_, _, _)
GroupItems(order, sess, coll) ==
    IF order = <<>> THEN <<>>
    ELSE <<ListItem("header", Head(order), Head(order))>>
         \o (IF Head(order) \notin coll THEN SessionItems(sess, Head(order))
             ELSE <<>>)
         \o GroupItems(Tail(order), sess, coll)

\* self.items as _build_items assigns it
BuildItems(ft, coll) ==
    LET Passes(s) == Matches(s, ft)
        kept      == SelectSeq(Sessions, Passes)
    IN  GroupItems(ProjectOrder(kept, {}), kept, coll)

\* the `Clamp cursor` lines of _build_items
ClampCursor(c, its) ==
    IF its # <<>> THEN Max({0, Min({c, Len(its) - 1})}) ELSE 0

\* _move_cursor
\* variant: the cursor is moved without clamping
MoveCursor_Unclamped(c, delta, its) == IF its = <<>> THEN c ELSE c + delta

MoveCursor(c, delta, its) ==
    IF its = <<>> THEN c ELSE Max({0, Min({Len(its) - 1, c + delta})})

\* the keys getch() returns in the model
Keys ==
    {"q", "Esc", "?", "j", "Up", "PgDn", "PgUp", "Home", "G", "Tab", "Left",
     "l", "Enter", "/", "Backspace", "a", "B"}

\* 32 <= key <= 126
Printable == {"q", "?", "j", "k", "g", "G", "h", "l", "/", "a", "B"}

QuitKeys == {"q", "Esc"}

MoveKeys == {"j", "Down", "k", "Up", "PgDn", "PgUp"}

\* the heights getmaxyx() reports
Heights == {3, 24}

\* the argument of _move_cursor for a key and a terminal height
Delta(k, h) ==
    IF k \in {"j", "Down"} THEN 1
    ELSE IF k \in {"k", "Up"} THEN -1
    ELSE IF k = "PgDn" THEN h - 4
    ELSE 4 - h

\* the variables no function of the browser writes
export == <<lines, idx, meta, assistant_msgs, tool_map, conversation,
            seen_assistant_ids, origin, file, cli>>

cache == <<preview_cache, preview_cache_order, used, seen_upto, revisits>>

InitBrowser ==
    /\ lines = <<>>
    /\ pc = "run"
    /\ idx = 1
    /\ meta = EmptyMeta
    /\ assistant_msgs = EmptyMap
    /\ tool_map = EmptyMap
    /\ conversation = <<>>
    /\ seen_assistant_ids = {}
    /\ origin = <<>>
    /\ file = <<>>
    /\ exc = ""
    /\ output = NoFile
    /\ exit_code = -1
    /\ stderr = ""
    /\ NewBrowser

\* run(): _load_sessions and _build_items before the loop
RunStart ==
    /\ pc = "run"
    /\ pc' = "loop"
    /\ list_items' = BuildItems(filter_text, collapsed)
    /\ cursor' = ClampCursor(cursor, list_items')
    /\ UNCHANGED <<preview_focus, filter_mode, filter_text, show_help, collapsed,
                   last_key, export, cache>>

\* the loop of run() has read key k in normal mode
NormalKey(k) ==
    /\ pc = "loop"
    /\ ~ show_help
    /\ ~ filter_mode
    /\ k \in Keys
    /\ last_key' = k

\* the loop of run() has read key k in filter mode
FilterKey(k) ==
    /\ pc = "loop"
    /\ ~ show_help
    /\ filter_mode
    /\ k \in Keys
    /\ last_key' = k

\* run(): any key closes the help overlay
DismissHelp ==
    /\ pc = "loop"
    /\ show_help
    /\ \E k \in Keys : last_key' = k
    /\ show_help' = FALSE
    /\ UNCHANGED <<pc, cursor, preview_focus, filter_mode, filter_text,
                   collapsed, list_items, export, cache>>

\* _handle_key: q or Esc from the list
Quit ==
    /\ \E k \in QuitKeys : NormalKey(k)
    /\ ~ preview_focus
    /\ pc' = "quit"
    /\ UNCHANGED <<cursor, preview_focus, filter_mode, filter_text, show_help,
                   collapsed, list_items, export, cache>>

\* _handle_key: q or Esc while the preview pane has the focus
LeavePreview ==
    /\ \E k \in QuitKeys : NormalKey(k)
    /\ preview_focus
    /\ preview_focus' = FALSE
    /\ UNCHANGED <<pc, cursor, filter_mode, filter_text, show_help, collapsed,
                   list_items, export, cache>>

\* _handle_key: ?
ShowHelp ==
    /\ NormalKey("?")
    /\ show_help' = TRUE
    /\ UNCHANGED <<pc, cursor, preview_focus, filter_mode, filter_text,
                   collapsed, list_items, export, cache>>

\* _handle_key: any other key while the preview pane has the focus; Tab
\* gives the focus back, the other keys at most scroll the preview
PreviewKey ==
    /\ \E k \in Keys \ (QuitKeys \cup {"?"}) :
          /\ NormalKey(k)
          /\ preview_focus' = (k # "Tab")
    /\ preview_focus
    /\ UNCHANGED <<pc, cursor, filter_mode, filter_text, show_help, collapsed,
                   list_items, export, cache>>

\* _handle_key: j, k, Down, Up, PgDn, PgUp
MoveKey ==
    /\ ~ preview_focus
    /\ \E k \in MoveKeys : \E h \in Heights :
          /\ NormalKey(k)
          /\ cursor' = MoveCursor(cursor, Delta(k, h), list_items)
    /\ UNCHANGED <<pc, preview_focus, filter_mode, filter_text, show_help,
                   collapsed, list_items, export, cache>>

\* _handle_key: g or Home
HomeKey ==
    /\ ~ preview_focus
    /\ \E k \in {"g", "Home"} : NormalKey(k)
    /\ cursor' = 0
    /\ UNCHANGED <<pc, preview_focus, filter_mode, filter_text, show_help,
                   collapsed, list_items, export, cache>>

\* _handle_key: G or End
EndKey ==
    /\ ~ preview_focus
    /\ \E k \in {"G", "End"} : NormalKey(k)
    /\ cursor' = Max({0, Len(list_items) - 1})
    /\ UNCHANGED <<pc, preview_focus, filter_mode, filter_text, show_help,
                   collapsed, list_items, export, cache>>

\* _handle_key: Tab from the list
TabKey ==
    /\ ~ preview_focus
    /\ NormalKey("Tab")
    /\ preview_focus' = ~ preview_focus
    /\ UNCHANGED <<pc, cursor, filter_mode, filter_text, show_help, collapsed,
                   list_items, export, cache>>

\* `0 <= self.cursor < len(self.items)`
OnItem == 0 <= cursor /\ cursor < Len(list_items)

\* the item under the cursor
Current == list_items[cursor + 1]

\* collapsed is set to coll and _build_items runs
Regroup(coll) ==
    /\ collapsed' = coll
    /\ list_items' = BuildItems(filter_text, coll)
    /\ cursor' = ClampCursor(cursor, list_items')
    /\ UNCHANGED <<pc, preview_focus, filter_mode, filter_text, show_help,
                   export, cache>>

\* _handle_key: h or Left, _collapse_current
CollapseKey ==
    /\ ~ preview_focus
    /\ \E k \in {"h", "Left"} : NormalKey(k)
    /\ IF OnItem THEN Regroup(collapsed \cup {Current.project})
       ELSE UNCHANGED <<pc, cursor, preview_focus, filter_mode, filter_text,
                        show_help, collapsed, list_items, export, cache>>

\* _handle_key: l or Right, _expand_current
ExpandKey ==
    /\ ~ preview_focus
    /\ \E k \in {"l", "Right"} : NormalKey(k)
    /\ IF OnItem THEN Regroup(collapsed \ {Current.project})
       ELSE UNCHANGED <<pc, cursor, preview_focus, filter_mode, filter_text,
                        show_help, collapsed, list_items, export, cache>>

\* _handle_key: Enter, _action_enter; on a session it exports the session
\* and sets the status line
EnterKey ==
    /\ ~ preview_focus
    /\ NormalKey("Enter")
    /\ IF list_items # <<>> /\ cursor < Len(list_items) /\ Current.kind = "header"
       THEN Regroup(IF Current.project \in collapsed
                    THEN collapsed \ {Current.project}
                    ELSE collapsed \cup {Current.project})
       ELSE UNCHANGED <<pc, cursor, preview_focus, filter_mode, filter_text,
                        show_help, collapsed, list_items, export, cache>>

\* _handle_key: /
StartFilter ==
    /\ ~ preview_focus
    /\ NormalKey("/")
    /\ filter_mode' = TRUE
    /\ filter_text' = <<>>
    /\ UNCHANGED <<pc, cursor, preview_focus, show_help, collapsed, list_items,
                   export, cache>>

\* _handle_key: a key without binding
UnboundKey ==
    /\ ~ preview_focus
    /\ \E k \in Keys \ (QuitKeys \cup MoveKeys
                        \cup {"?", "g", "Home", "G", "End", "Tab", "h", "Left",
                              "l", "Right", "Enter", "/"}) : NormalKey(k)
    /\ UNCHANGED <<pc, cursor, preview_focus, filter_mode, filter_text,
                   show_help, collapsed, list_items, export, cache>>

\* filter_text is set to ft, the cursor to 0, and _build_items runs
Refilter(ft) ==
    /\ filter_text' = ft
    /\ list_items' = BuildItems(ft, collapsed)
    /\ cursor' = ClampCursor(0, list_items')

\* _handle_filter_key: Esc
FilterCancel ==
    /\ FilterKey("Esc")
    /\ filter_mode' = FALSE
    /\ filter_text' = <<>>
    /\ list_items' = BuildItems(<<>>, collapsed)
    /\ cursor' = ClampCursor(cursor, list_items')
    /\ UNCHANGED <<pc, preview_focus, show_help, collapsed, export, cache>>

\* _handle_filter_key: Enter
FilterConfirm ==
    /\ FilterKey("Enter")
    /\ filter_mode' = FALSE
    /\ UNCHANGED <<pc, cursor, preview_focus, filter_text, show_help, collapsed,
                   list_items, export, cache>>

\* _handle_filter_key: Backspace
FilterBackspace ==
    /\ FilterKey("Backspace")
    /\ Refilter(SubSeq(filter_text, 1, Len(filter_text) - 1))
    /\ UNCHANGED <<pc, preview_focus, filter_mode, show_help, collapsed, export,
                   cache>>

\* _handle_filter_key: a printable character
FilterType ==
    /\ Len(filter_text) < MaxFilter
    /\ \E k \in Printable : FilterKey(k) /\ Refilter(Append(filter_text, k))
    /\ UNCHANGED <<pc, preview_focus, filter_mode, show_help, collapsed, export,
                   cache>>

\* _handle_filter_key: any other key
FilterOther ==
    /\ \E k \in Keys \ (Printable \cup {"Esc", "Enter", "Backspace"}) : FilterKey(k)
    /\ UNCHANGED <<pc, cursor, preview_focus, filter_mode, filter_text,
                   show_help, collapsed, list_items, export, cache>>

NextBrowser ==
    \/ RunStart
    \/ DismissHelp
    \/ Quit
    \/ LeavePreview
    \/ ShowHelp
    \/ PreviewKey
    \/ MoveKey
    \/ HomeKey
    \/ EndKey
    \/ TabKey
    \/ CollapseKey
    \/ ExpandKey
    \/ EnterKey
    \/ StartFilter
    \/ UnboundKey
    \/ FilterCancel
    \/ FilterConfirm
    \/ FilterBackspace
    \/ FilterType
    \/ FilterOther

SpecBrowser == InitBrowser /\ [][NextBrowser]_vars

----------------------------------------------------------------------------
(* SessionBrowser: the cache of previews *)

\* self._cache_max
cache_max == 20

\* the sessions of the list are numbered 1..MaxSessions from the top
MaxSessions == 22

\* a session already seen is requested again at most this many times
MaxRevisits == 2

\* the sessions whose file is missing (no path, or the path does not exist)
MissingFile == {3}

\* session.get("session_id", "")
SessionId(n) == n

\* _read_preview(path) of session n
ReadPreview(n) == [session_id |-> SessionId(n)]

\* the sequence order without its element sid
Without(order, sid) ==
    LET Other(x) == x # sid IN SelectSeq(order, Other)

\* variant: the oldest id leaves the order list but stays in the cache
Evict_OrderOnly(pcache, order) ==
    IF Len(order) >= cache_max
    THEN [cache |-> pcache, order |-> Tail(order)]
    ELSE [cache |-> pcache, order |-> order]

\* the `LRU eviction` lines of _get_preview
Evict(pcache, order) ==
    IF Len(order) >= cache_max
    THEN [cache |-> [k \in DOMAIN pcache \ {Head(order)} |-> pcache[k]],
          order |-> Tail(order)]
    ELSE [cache |-> pcache, order |-> order]

InitPreview ==
    /\ lines = <<>>
    /\ pc = "draw"
    /\ idx = 1
    /\ meta = EmptyMeta
    /\ assistant_msgs = EmptyMap
    /\ tool_map = EmptyMap
    /\ conversation = <<>>
    /\ seen_assistant_ids = {}
    /\ origin = <<>>
    /\ file = <<>>
    /\ exc = ""
    /\ output = NoFile
    /\ exit_code = -1
    /\ stderr = ""
    /\ NewBrowser

\* the browser draws the preview of session n: the cursor has come down to
\* the next session of the list, or is back on a session already seen
Requested(n) ==
    /\ pc = "draw"
    /\ n \in 1..MaxSessions
    /\ IF n = seen_upto + 1
       THEN seen_upto' = n /\ UNCHANGED revisits
       ELSE /\ n <= seen_upto
            /\ revisits < MaxRevisits
            /\ revisits' = revisits + 1
            /\ UNCHANGED seen_upto
    /\ UNCHANGED <<pc, cursor, preview_focus, filter_mode, filter_text,
                   show_help, collapsed, list_items, last_key, export>>

\* _get_preview: the preview is in the cache
PreviewHit ==
    /\ pc = "draw"
    /\ \E n \in 1..MaxSessions :
        /\ Requested(n)
        /\ SessionId(n) \in DOMAIN preview_cache
        /\ used' = Append(Without(used, SessionId(n)), SessionId(n))
        /\ UNCHANGED <<preview_cache, preview_cache_order>>

\* _get_preview: no preview in the cache and no file to read
PreviewMissing ==
    /\ pc = "draw"
    /\ \E n \in 1..MaxSessions :
        /\ Requested(n)
        /\ SessionId(n) \notin DOMAIN preview_cache
        /\ n \in MissingFile
        /\ UNCHANGED <<preview_cache, preview_cache_order, used>>

\* _get_preview: the file is read and its preview cached
PreviewMiss ==
    /\ pc = "draw"
    /\ \E n \in 1..MaxSessions :
        /\ Requested(n)
        /\ SessionId(n) \notin DOMAIN preview_cache
        /\ n \notin MissingFile
        /\ LET kept == Evict(preview_cache, preview_cache_order) IN
           /\ preview_cache' = Put(kept.cache, SessionId(n), ReadPreview(n))
           /\ preview_cache_order' = Append(kept.order, SessionId(n))
           /\ used' = Append(IF Len(preview_cache_order) >= cache_max
                             THEN Without(used, Head(preview_cache_order))
                             ELSE used, SessionId(n))

NextPreview ==
    \/ PreviewHit
    \/ PreviewMissing
    \/ PreviewMiss

SpecPreview == InitPreview /\ [][NextPreview]_vars

----------------------------------------------------------------------------
(* generate_html *)

\* the messages handed to generate_html are at most this many
MaxMessages == 2

\* the character U+2014 of the title
EmDash == "U+2014"

\* the placeholders of HTML_TEMPLATE
TitlePlaceholder ==
    <<"{", "{", "T", "I", "T", "L", "E", "}", "}">>

JsonPlaceholder ==
    <<"{", "{", "J", "S", "O", "N", "_", "D", "A", "T", "A", "}", "}">>

\* HTML_TEMPLATE without its style sheet and its script: the title element,
\* the element that carries the data and the element the page is built in
HTML_TEMPLATE ==
    <<"<", "t", "i", "t", "l", "e", ">">> \o TitlePlaceholder
    \o
    <<"<", "/", "t", "i", "t", "l", "e", ">", "<", "s", "c", "r", "i", "p",
      "t", " ", "t", "y", "p", "e", "=", "\"", "a", "p", "p", "l", "i", "c",
      "a", "t", "i", "o", "n", "/", "j", "s", "o", "n", "\"", " ", "i", "d",
      "=", "\"", "c", "o", "n", "v", "e", "r", "s", "a", "t", "i", "o", "n",
      "-", "d", "a", "t", "a", "\"", ">">>
    \o JsonPlaceholder \o
    <<"<", "/", "s", "c", "r", "i", "p", "t", ">", "<", "d", "i", "v", " ",
      "i", "d", "=", "\"", "a", "p", "p", "\"", ">", "<", "/", "d", "i", "v",
      ">">>

\* str.find(pat, from), counted from 1: the position of the first
\* occurrence of pat in s at or after from, 0 when there is none
Find(s, pat, from) ==
    LET at == {k \in from..(Len(s) - Len(pat) + 1) :
                  SubSeq(s, k, k + Len(pat) - 1) = pat}
    IN  IF at = {} THEN 0 ELSE Min(at)

\* str.replace(old, new)
RECURSIVE Replace(_, _, _)
Replace(s, old, new) ==
    LET k == Find(s, old, 1) IN
    IF k = 0 THEN s
    ELSE SubSeq(s, 1, k - 1) \o new
         \o Replace(SubSeq(s, k + Len(old), Len(s)), old, new)

\* json.dumps of a string, ensure_ascii=False
RECURSIVE JsonEscape(_)
JsonEscape(s) ==
    IF s = <<>> THEN <<>>
    ELSE (IF Head(s) = "\"" THEN <<"\\", "\"">>
          ELSE IF Head(s) = "\\" THEN <<"\\", "\\">>
          ELSE IF Head(s) = "\n" THEN <<"\\", "n">>
          ELSE <<Head(s)>>)
         \o JsonEscape(Tail(s))

JsonString(s) == <<"\"">> \o JsonEscape(s) \o <<"\"">>

\* json.dumps of a block {"type": "text", "text": ...}
JsonBlock(b) ==
    <<"{", "\"", "t", "y", "p", "e", "\"", ":", " ", "\"", "t", "e", "x",
      "t", "\"", ",", " ", "\"", "t", "e", "x", "t", "\"", ":", " ">> \o JsonString(b.text)
    \o <<"}">>

\* json.dumps of a list whose items are already serialized
RECURSIVE JsonItems(_)
JsonItems(parts) ==
    IF parts = <<>> THEN <<>>
    ELSE IF Len(parts) = 1 THEN Head(parts)
    ELSE Head(parts) \o <<",", " ">> \o JsonItems(Tail(parts))

JsonList(parts) == <<"[">> \o JsonItems(parts) \o <<"]">>

\* json.dumps of a turn whose timestamp is empty and whose blocks are text
JsonTurn(turn) ==
    <<"{", "\"", "r", "o", "l", "e", "\"", ":", " ">> \o JsonString(<<"u", "s", "e", "r">>)
    \o
    <<",", " ", "\"", "t", "i", "m", "e", "s", "t", "a", "m", "p", "\"", ":",
      " ", "\"", "\"", ",", " ", "\"", "b", "l", "o", "c", "k", "s", "\"",
      ":", " ">>
    \o JsonList([j \in 1..Len(turn.blocks) |-> JsonBlock(turn.blocks[j])])
    \o <<"}">>

\* json.dumps of the metadata {"date": ...}, {} when there is no date key
JsonMetadata(metadata) ==
    IF "date" \in DOMAIN metadata
    THEN
    <<"{", "\"", "d", "a", "t", "e", "\"", ":", " ">> \o JsonString(metadata.date) \o <<"}">>
    ELSE <<"{", "}">>

\* json.dumps({"messages": messages, "metadata": metadata})
JsonDumps(messages, metadata) ==
    <<"{", "\"", "m", "e", "s", "s", "a", "g", "e", "s", "\"", ":", " ">>
    \o JsonList([j \in 1..Len(messages) |-> JsonTurn(messages[j])])
    \o
    <<",", " ", "\"", "m", "e", "t", "a", "d", "a", "t", "a", "\"", ":", " ">> \o JsonMetadata(metadata) \o <<"}">>

\* json_data.replace("</", "<\\/")
EscapeClosing(json) == Replace(json, <<"<", "/">>, <<"<", "\\", "/">>)

\* the title for a date that is empty, absent, or not in ISO format
Title(metadata) ==
    <<"C", "l", "a", "u", "d", "e", " ", "C", "o", "d", "e", " ", "S", "e",
      "s", "s", "i", "o", "n", " ">> \o <<EmDash, " ">>
    \o (IF Get(metadata, "date", <<>>) = <<>>
        THEN
    <<"U", "n", "k", "n", "o", "w", "n">>
        ELSE metadata.date)

generate_html(messages, metadata) ==
    Replace(Replace(HTML_TEMPLATE, JsonPlaceholder,
                    EscapeClosing(JsonDumps(messages, metadata))),
            TitlePlaceholder, Title(metadata))

\* the texts of the messages
HtmlTexts ==
    { <<"a">>,
      <<"<", "/", "b">>,
      <<"<", "\\", "/">>,
      <<"\"">>,
      <<"\\", "n">>,
      <<"\n">>,
      TitlePlaceholder,
      JsonPlaceholder }

\* the dates of the metadata: none of them is in ISO format
HtmlDates == { <<>>, <<"n", "o", "w">>, <<"<", "/", "t">> }

InitHtml ==
    /\ lines = <<>>
    /\ pc = "payload"
    /\ idx = 1
    /\ meta = EmptyDict
    /\ assistant_msgs = EmptyMap
    /\ tool_map = EmptyMap
    /\ conversation = <<>>
    /\ seen_assistant_ids = {}
    /\ origin = <<>>
    /\ file = <<>>
    /\ exc = ""
    /\ output = NoFile
    /\ exit_code = -1
    /\ stderr = ""
    /\ NewBrowser

\* one more turn of the conversation to render: a user prompt
AddTurn ==
    /\ pc = "payload"
    /\ Len(conversation) < MaxMessages
    /\ \E t \in HtmlTexts :
          conversation' = Append(conversation,
                                 Turn("user", 0, <<[type |-> "text", text |-> t]>>))
    /\ origin' = Append(origin, 0)
    /\ UNCHANGED <<lines, pc, idx, meta, assistant_msgs, tool_map,
                   seen_assistant_ids, file, cli, tui>>

\* the metadata to render has a date
AddDate ==
    /\ pc = "payload"
    /\ meta = EmptyDict
    /\ \E d \in HtmlDates : meta' = [date |-> d]
    /\ UNCHANGED <<lines, pc, idx, assistant_msgs, tool_map, conversation,
                   seen_assistant_ids, origin, file, cli, tui>>

\* export_session: html = generate_html(conversation, meta) is written
GenerateHtml ==
    /\ pc = "payload"
    /\ conversation # <<>>
    /\ output' = [exists |-> TRUE, messages |-> conversation, metadata |-> meta,
                  html |-> generate_html(conversation, meta)]
    /\ pc' = "written"
    /\ UNCHANGED <<lines, idx, meta, assistant_msgs, tool_map, conversation,
                   seen_assistant_ids, origin, file, exc, exit_code, stderr, tui>>

NextHtml ==
    \/ AddTurn
    \/ AddDate
    \/ GenerateHtml

SpecHtml == InitHtml /\ [][NextHtml]_vars

----------------------------------------------------------------------------
(* Vocabulary of the properties *)

Emitting == pc \in {"pass2", "done"}

Turns == 1..Len(conversation)

AssistantTurns == {t \in Turns : conversation[t].role = "assistant"}

\* the message id of the logical message behind assistant turn t
TurnMsgId(t) == MsgIdOf(relevant[origin[t]])

Positions(blocks, type) == {j \in 1..Len(blocks) : blocks[j].type = type}

IsNonBlank(s) == Strip(s) # <<>>

NonBlank(frags) == SelectSeq(frags, IsNonBlank)

\* the physical events of logical message id that carry a block list
IsFragmentOf(obj, id) ==
    /\ Get(obj, "type", None) = "assistant"
    /\ MsgIdOf(obj) = id
    /\ IsList(AssistantContent(Get(obj, "message", EmptyDict)))

RECURSIVE BlocksOf(_, _)
BlocksOf(items, type) ==
    IF items = <<>> THEN <<>>
    ELSE (IF Get(Head(items), "type", "") = type THEN <<Head(items)>> ELSE <<>>)
         \o BlocksOf(Tail(items), type)

\* the raw blocks of kind `type` delivered for logical message id, in log
\* order
RECURSIVE Delivered(_, _, _)
Delivered(rel, id, type) ==
    IF rel = <<>> THEN <<>>
    ELSE (IF IsFragmentOf(Head(rel), id)
          THEN BlocksOf(Head(rel).message.content.items, type)
          ELSE <<>>)
         \o Delivered(Tail(rel), id, type)

\* their values of `field`
Fragments(rel, id, type, field) ==
    LET raw == Delivered(rel, id, type)
    IN  [j \in 1..Len(raw) |-> Get(raw[j], field, <<>>)]

Range(s) == {s[j] : j \in 1..Len(s)}

Last(s) == s[Len(s)]

----------------------------------------------------------------------------
(* C1: the turn of a logical assistant message has at most one text block  *)
(* and at most one thinking block; the text block is the last non-blank    *)
(* text fragment of the message in log order, the thinking block the last  *)
(* non-blank thinking fragment, and the thinking block stands before the   *)
(* text block.                                                             *)
C1_LastFragmentWins ==
    Emitting =>
        \A t \in AssistantTurns :
            LET blocks == conversation[t].blocks
                texts  == NonBlank(Fragments(relevant, TurnMsgId(t), "text", "text"))
                thinks == NonBlank(Fragments(relevant, TurnMsgId(t),
                                             "thinking", "thinking"))
                tp     == Positions(blocks, "text")
                kp     == Positions(blocks, "thinking")
            IN  /\ Cardinality(tp) <= 1
                /\ Cardinality(kp) <= 1
                /\ (tp # {}) <=> (texts # <<>>)
                /\ (kp # {}) <=> (thinks # <<>>)
                /\ \A j \in tp : blocks[j].text = Last(texts)
                /\ \A j \in kp : blocks[j].text = Last(thinks)
                /\ \A j \in kp, k \in tp : j < k

\* a message whose text was delivered twice with different values and whose
\* thinking arrived after its first text
C1_Witness ==
    /\ pc = "done"
    /\ \E t \in AssistantTurns :
          LET id     == TurnMsgId(t)
              texts  == NonBlank(Fragments(relevant, id, "text", "text"))
              first  == relevant[origin[t]].message.content
          IN  /\ Len(texts) >= 2
              /\ texts[1] # Last(texts)
              /\ IsList(first)
              /\ first.items # <<>>
              /\ first.items[1].type = "text"
              /\ Positions(conversation[t].blocks, "thinking") = {1}
              /\ Positions(conversation[t].blocks, "text") = {2}

----------------------------------------------------------------------------
(* Vocabulary of the properties about tool results *)

\* pass 2 is about to walk a user event that carries tool_result blocks
AtToolResult ==
    /\ AtUser
    /\ IsList(CurContent)
    /\ HasToolResult(CurContent.items)

LastIsAssistant ==
    conversation # <<>> /\ conversation[Len(conversation)].role = "assistant"

ResultPositions(items) == {p \in 1..Len(items) : IsToolResult(items[p])}

Rank(items, p) == Cardinality({q \in ResultPositions(items) : q <= p})

HasToolUse(blocks, id) ==
    \E j \in Positions(blocks, "tool_use") : blocks[j].tool_id = id

----------------------------------------------------------------------------
(* C2: a user event with tool_result blocks is attached to the last        *)
(* emitted turn exactly when that turn is an assistant turn; otherwise (no *)
(* turn yet, or the last turn is a user or tool turn) it makes a new turn  *)
(* of role tool holding its normalized results and the event's timestamp;  *)
(* no earlier turn is ever changed.                                        *)
C2_AttachByAdjacency ==
    [][AtToolResult =>
        LET n       == Len(conversation)
            results == NormalizeAll(CurContent.items, tool_map)
        IN  /\ \A t \in 1..(n - 1) : conversation'[t] = conversation[t]
            /\ IF LastIsAssistant
               THEN /\ Len(conversation') = n
                    /\ conversation'[n] =
                           [conversation[n] EXCEPT !.blocks = @ \o results]
               ELSE conversation' =
                        Append(conversation,
                               Turn("tool", Get(relevant[idx], "timestamp", 0),
                                    results))
    ]_vars

\* a standalone tool turn whose invocation sits in an earlier assistant turn
C2_Witness ==
    /\ pc = "done"
    /\ \E t \in Turns : \E a \in AssistantTurns :
          /\ a < t
          /\ conversation[t].role = "tool"
          /\ HasToolUse(conversation[a].blocks,
                        conversation[t].blocks[1].tool_use_id)

(* C3 as stated: a tool_result event is merged into the latest assistant   *)
(* turn, and makes no turn of its own, whenever no other assistant turn    *)
(* was emitted after it, also when user turns were emitted in between.     *)
C3_MergedAcrossUserTurns ==
    [][(AtToolResult /\ AssistantTurns # {}) =>
        LET a == Max(AssistantTurns) IN
        /\ Len(conversation') = Len(conversation)
        /\ conversation'[a].blocks =
               conversation[a].blocks \o NormalizeAll(CurContent.items, tool_map)
    ]_vars

(* C3 as amended: a tool_result event is merged into the latest assistant  *)
(* turn exactly when that turn is the last emitted turn; when a turn of    *)
(* any other role was emitted after it, the event becomes a turn of its    *)
(* own of role tool and the assistant turn is left as it is.               *)
C3_MergedOnlyWhenLast ==
    [][(AtToolResult /\ AssistantTurns # {}) =>
        LET a == Max(AssistantTurns)
            n == Len(conversation)
        IN  IF a = n
            THEN /\ Len(conversation') = n
                 /\ conversation'[a].blocks =
                        conversation[a].blocks
                        \o NormalizeAll(CurContent.items, tool_map)
            ELSE /\ Len(conversation') = n + 1
                 /\ conversation'[a] = conversation[a]
                 /\ conversation'[n + 1].role = "tool"
    ]_vars

\* a result merged into the assistant turn across a user event that made
\* no turn
C3_Witness ==
    /\ pc = "done"
    /\ Len(relevant) = 3
    /\ Get(relevant[2], "type", None) = "user"
    /\ Len(conversation) = 1
    /\ conversation[1].role = "assistant"
    /\ Positions(conversation[1].blocks, "tool_result") # {}

(* C4: when the last emitted turn is an assistant turn, a tool_result      *)
(* event makes no new turn: its results are appended after every block of  *)
(* that turn, normalized, in the order they occur in the event.            *)
C4_AppendedInEventOrder ==
    [][(AtToolResult /\ LastIsAssistant) =>
        LET n     == Len(conversation)
            items == CurContent.items
            old   == conversation[n].blocks
            new   == conversation'[n].blocks
        IN  /\ Len(conversation') = n
            /\ origin' = origin
            /\ Len(new) = Len(old) + Cardinality(ResultPositions(items))
            /\ SubSeq(new, 1, Len(old)) = old
            /\ \A p \in ResultPositions(items) :
                   new[Len(old) + Rank(items, p)] =
                       normalize_tool_result(items[p], tool_map)
    ]_vars

\* the results of two consecutive events, one of them with two results,
\* accumulated behind the blocks of the assistant turn
C4_Witness ==
    /\ pc = "done"
    /\ Len(relevant) = 3
    /\ Len(conversation) = 1
    /\ conversation[1].role = "assistant"
    /\ LET blocks == conversation[1].blocks IN
       /\ Len(blocks) = 4
       /\ Positions(blocks, "tool_result") = {2, 3, 4}
       /\ blocks[2].tool_use_id # blocks[3].tool_use_id

----------------------------------------------------------------------------
(* Vocabulary of the properties about logical messages *)

\* the positions in the filtered log of the physical events of message id
EventsOf(id) ==
    {i \in 1..Len(relevant) :
        Get(relevant[i], "type", None) = "assistant" /\ MsgIdOf(relevant[i]) = id}

ToolIds(raw) == {Get(raw[j], "id", "") : j \in 1..Len(raw)}

\* the first raw tool_use block carrying tool_id
FirstDelivery(raw, tool_id) ==
    raw[Min({j \in 1..Len(raw) : Get(raw[j], "id", "") = tool_id})]

\* the tool_use blocks of a merged block list are the first deliveries
FirstKept(blocks, raw) ==
    LET up == Positions(blocks, "tool_use") IN
    /\ \A j, k \in up : j # k => blocks[j].tool_id # blocks[k].tool_id
    /\ {blocks[j].tool_id : j \in up} = ToolIds(raw)
    /\ \A j \in up :
          LET first == FirstDelivery(raw, blocks[j].tool_id) IN
          /\ blocks[j].tool_name = Get(first, "name", "unknown")
          /\ blocks[j].input = Get(first, "input", EmptyDict)

(* C5: turns are emitted in the order of their triggering events; a        *)
(* logical assistant message yields at most one turn, placed at the first  *)
(* physical event of its id and carrying the blocks of all its physical    *)
(* events, those later in the log included.                                *)
C5_OneTurnAtFirstEvent ==
    Emitting =>
        /\ \A t, u \in Turns : t < u => origin[t] < origin[u]
        /\ \A t \in Turns :
              /\ origin[t] < idx
              /\ (conversation[t].role = "assistant")
                     <=> (Get(relevant[origin[t]], "type", None) = "assistant")
        /\ \A t, u \in AssistantTurns : t # u => TurnMsgId(t) # TurnMsgId(u)
        /\ \A t \in AssistantTurns :
              LET id     == TurnMsgId(t)
                  blocks == conversation[t].blocks
                  texts  == NonBlank(Fragments(relevant, id, "text", "text"))
              IN  /\ origin[t] = Min(EventsOf(id))
                  /\ {blocks[j].tool_id : j \in Positions(blocks, "tool_use")}
                         = ToolIds(Delivered(relevant, id, "tool_use"))
                  /\ texts # <<>> =>
                         \E j \in Positions(blocks, "text") :
                             blocks[j].text = Last(texts)

\* a message delivered before and after a user turn: one turn, in front of
\* the user turn, with the tool_use block of the later event
C5_Witness ==
    /\ pc = "done"
    /\ Len(relevant) = 3
    /\ Len(conversation) = 2
    /\ conversation[1].role = "assistant"
    /\ conversation[2].role = "user"
    /\ EventsOf(TurnMsgId(1)) = {1, 3}
    /\ IsFragmentOf(relevant[1], TurnMsgId(1))
    /\ BlocksOf(relevant[1].message.content.items, "tool_use") = <<>>
    /\ Positions(conversation[1].blocks, "tool_use") # {}

(* C6: within one assistant turn no two tool_use blocks have the same      *)
(* tool_id; of the deliveries of one invocation id in a logical message    *)
(* the first is kept, with its name and input, and a redelivery leaves the *)
(* entry's block list as it is.                                            *)
C6_ToolUseOncePerMessage ==
    /\ pc = "pass1" =>
          \A id \in DOMAIN assistant_msgs :
              FirstKept(assistant_msgs[id].blocks,
                        Delivered(SubSeq(relevant, 1, idx - 1), id, "tool_use"))
    /\ Emitting =>
          \A t \in AssistantTurns :
              FirstKept(conversation[t].blocks,
                        Delivered(relevant, TurnMsgId(t), "tool_use"))

\* an invocation id delivered twice under different names, kept once
C6_Witness ==
    /\ pc = "done"
    /\ \E t \in AssistantTurns :
          LET raw == Delivered(relevant, TurnMsgId(t), "tool_use") IN
          /\ Len(raw) >= 2
          /\ raw[1].id = raw[2].id
          /\ raw[1].name # raw[2].name
          /\ Cardinality(Positions(conversation[t].blocks, "tool_use")) = 1

----------------------------------------------------------------------------
(* Vocabulary of the properties about tool names *)

\* the raw tool_use blocks of the assistant events of a filtered log, in
\* log order
RECURSIVE ToolUsesIn(_)
ToolUsesIn(rel) ==
    IF rel = <<>> THEN <<>>
    ELSE (IF IsFragmentOf(Head(rel), MsgIdOf(Head(rel)))
          THEN BlocksOf(Head(rel).message.content.items, "tool_use")
          ELSE <<>>)
         \o ToolUsesIn(Tail(rel))

\* the name of the last tool_use block of rel that carries tool_id
NameIn(rel, tool_id) ==
    LET raw == ToolUsesIn(rel)
        at  == {j \in 1..Len(raw) : Get(raw[j], "id", "") = tool_id}
    IN  IF at = {} THEN "unknown" ELSE Get(raw[Max(at)], "name", "unknown")

\* the normalized results a step on a tool_result event has put into the
\* conversation
NewResults ==
    LET n == Len(conversation) IN
    IF LastIsAssistant
    THEN SubSeq(conversation'[n].blocks, Len(conversation[n].blocks) + 1,
                Len(conversation'[n].blocks))
    ELSE conversation'[n + 1].blocks

C8_MapAppendOnly ==
    [][/\ \A id \in DOMAIN tool_map :
              id \in DOMAIN tool_map' /\ tool_map'[id] = tool_map[id]
       /\ AtToolResult =>
              \A j \in 1..Len(NewResults) :
                  NewResults[j].tool_name =
                      MapGet(tool_map, NewResults[j].tool_use_id, "unknown")
    ]_vars

----------------------------------------------------------------------------
(* Vocabulary of the properties about sidechain events and metadata *)

IsMain(obj) == ~ Get(obj, "isSidechain", FALSE)

WithoutSidechain(log) == SelectSeq(log, IsMain)

\* the value of `key` on the first record of the log that has one
FirstValue(log, key, empty) ==
    LET at == {i \in 1..Len(log) : Get(log[i], key, empty) # empty}
    IN  IF at = {} THEN empty ELSE log[Min(at)][key]

ModelOf(obj) == Get(Get(obj, "message", EmptyDict), "model", "")

FirstModel(log) ==
    LET at == {i \in 1..Len(log) :
                  Get(log[i], "type", None) = "assistant" /\ ModelOf(log[i]) # ""}
    IN  IF at = {} THEN "" ELSE ModelOf(log[Min(at)])

(* C9: sidechain events leave the output of build_conversation as it is    *)
(* without them: the turns and the tool-name map equal those of the log    *)
(* with the sidechain events deleted; extract_metadata takes session_id,   *)
(* git_branch, cwd, date and model from the first record that has them,    *)
(* sidechain records included.                                             *)
C9_SidechainInvisible ==
    pc = "done" =>
        /\ conversation = build_conversation(WithoutSidechain(lines))
        /\ tool_map =
               Pass1Fold([assistant_msgs |-> EmptyMap, tool_map |-> EmptyMap],
                         Relevant(WithoutSidechain(lines))).tool_map
        /\ meta.session_id = FirstValue(lines, "sessionId", "")
        /\ meta.git_branch = FirstValue(lines, "gitBranch", "")
        /\ meta.cwd = FirstValue(lines, "cwd", "")
        /\ meta.date = FirstValue(lines, "timestamp", 0)
        /\ meta.model = FirstModel(lines)

\* a sidechain assistant event opens the log: the metadata are its own,
\* its tool_use names no result, and the turns are those of the rest
C9_Witness ==
    /\ pc = "done"
    /\ Len(lines) = 3
    /\ Get(lines[1], "isSidechain", FALSE)
    /\ Get(lines[1], "type", None) = "assistant"
    /\ meta.session_id = lines[1].sessionId
    /\ meta.model = lines[1].message.model
    /\ Get(lines[2], "sessionId", "") \notin {"", meta.session_id}
    /\ Len(conversation) = 2
    /\ conversation[2].role = "tool"
    /\ conversation[2].blocks[1].tool_use_id
           \in ToolIds(BlocksOf(lines[1].message.content.items, "tool_use"))
    /\ conversation[2].blocks[1].tool_name = "unknown"

----------------------------------------------------------------------------
(* Vocabulary of the properties about blank content *)

AllBlank(s) == \A j \in 1..Len(s) : s[j] \in Whitespace

\* every fragment of logical message id is blank and it has no tool_use
BlankMessage(id) ==
    /\ \A s \in Range(Fragments(relevant, id, "text", "text")) : AllBlank(s)
    /\ \A s \in Range(Fragments(relevant, id, "thinking", "thinking")) : AllBlank(s)
    /\ Delivered(relevant, id, "tool_use") = <<>>

\* a user event whose string content or text blocks are all blank
BlankUser(obj) ==
    LET content == UserContent(Get(obj, "message", EmptyDict)) IN
    /\ Get(obj, "type", None) = "user"
    /\ \/ IsStr(content) /\ AllBlank(content.val)
       \/ /\ IsList(content)
          /\ ~ HasToolResult(content.items)
          /\ \A j \in 1..Len(content.items) :
                Get(content.items[j], "type", None) = "text"
                    => AllBlank(Get(content.items[j], "text", <<>>))

(* C10: no emitted turn has an empty block list; a logical assistant       *)
(* message whose fragments are all blank makes no turn although its id is  *)
(* marked as emitted, and a user event whose string content or text        *)
(* fragments are all blank makes no turn.                                  *)
C10_NoEmptyTurn ==
    /\ \A t \in Turns : conversation[t].blocks # <<>>
    /\ pc = "done" =>
          \A i \in 1..Len(relevant) :
              /\ (Get(relevant[i], "type", None) = "assistant"
                  /\ BlankMessage(MsgIdOf(relevant[i])))
                     => /\ MsgIdOf(relevant[i]) \in seen_assistant_ids
                        /\ \A t \in AssistantTurns :
                               TurnMsgId(t) # MsgIdOf(relevant[i])
              /\ BlankUser(relevant[i]) => \A t \in Turns : origin[t] # i

\* a blank assistant message and a blank user event next to an emitted turn
C10_Witness ==
    /\ pc = "done"
    /\ Len(relevant) = 3
    /\ Len(conversation) = 1
    /\ \E i \in 1..3 :
          /\ Get(relevant[i], "type", None) = "assistant"
          /\ BlankMessage(MsgIdOf(relevant[i]))
          /\ IsFragmentOf(relevant[i], MsgIdOf(relevant[i]))
          /\ MsgIdOf(relevant[i]) \in seen_assistant_ids
    /\ \E i \in 1..3 : BlankUser(relevant[i])

----------------------------------------------------------------------------
(* C11: build_conversation never raises on a malformed field: a message  *)
(* that is null or not an object, a content list item that is not an     *)
(* object, a text or thinking that is null or not a string, a            *)
(* tool_result content list item that is not an object.  As stated: no   *)
(* step of pass 1 or pass 2 ends in an exception.                        *)

C11_ReconstructorNeverRaises ==
    [][(pc \in {"pass1", "pass2"}) => ~ (pc' = "raised")]_vars

----------------------------------------------------------------------------
(* C12: on object records in which any subset of the fields is absent,   *)
(* build_conversation and extract_metadata return without raising, and   *)
(* their results are those of the same records with every absent field   *)
(* written out as its empty default.                                     *)

\* d with key k set to v when d has no key k
Default(d, k, v) == IF k \in DOMAIN d THEN d ELSE Put(d, k, v)

FillItem(item) == Default(Default(item, "type", ""), "text", <<>>)

FillItems(c) ==
    IF IsList(c) THEN ListOf([j \in 1..Len(c.items) |-> FillItem(c.items[j])])
    ELSE c

FillBlock(b) ==
    LET b1 == Default(Default(Default(b, "type", ""), "text", <<>>),
                      "thinking", <<>>)
        b2 == Default(Default(Default(b1, "id", ""), "name", "unknown"),
                      "input", EmptyDict)
        b3 == Default(Default(Default(b2, "tool_use_id", ""), "is_error", FALSE),
                      "content", StrOf(<<>>))
    IN  [b3 EXCEPT !.content = FillItems(@)]

FillBlocks(c) ==
    IF IsList(c) THEN ListOf([j \in 1..Len(c.items) |-> FillBlock(c.items[j])])
    ELSE c

FillMessage(msg, type) ==
    LET m1 == Default(Default(Default(msg, "id", ""), "model", ""),
                      "stop_reason", None)
        m2 == Default(m1, "content",
                      IF type = "assistant" THEN ListOf(<<>>) ELSE StrOf(<<>>))
    IN  [m2 EXCEPT !.content = FillBlocks(@)]

FillRecord(obj) ==
    LET o1 == Default(Default(Default(obj, "type", ""), "timestamp", 0),
                      "isSidechain", FALSE)
        o2 == Default(Default(Default(o1, "sessionId", ""), "gitBranch", ""),
                      "cwd", "")
        o3 == Default(o2, "message", EmptyDict)
    IN  [o3 EXCEPT !.message = FillMessage(@, o1.type)]

FillLog(log) == [j \in 1..Len(log) |-> FillRecord(log[j])]

\* every field that is present has the type the code expects
WellTyped(log) ==
    \A j \in 1..Len(log) :
        log[j] \in {Stamp(shape, j) : shape \in PlainShapes \cup AbsentShapes}

C12_AbsentFieldsDefault ==
    WellTyped(lines) =>
        /\ pc # "raised"
        /\ pc \in {"pass1", "pass2", "done"} =>
               meta = extract_metadata(FillLog(lines))
        /\ pc = "done" => conversation = build_conversation(FillLog(lines))

\* a log of three records with absent fields has been reconstructed into
\* a turn whose tool_use and tool_result blocks hold the defaults
C12_Witness ==
    /\ pc = "done"
    /\ WellTyped(lines)
    /\ Len(lines) = 3
    /\ \A j \in 1..3 : lines[j] \in {shape.ev : shape \in AbsentShapes}
    /\ \E t \in 1..Len(conversation) :
           /\ \E b \in 1..Len(conversation[t].blocks) :
                  /\ conversation[t].blocks[b].type = "tool_use"
                  /\ conversation[t].blocks[b].tool_name = "unknown"
           /\ \E b \in 1..Len(conversation[t].blocks) :
                  /\ conversation[t].blocks[b].type = "tool_result"
                  /\ conversation[t].blocks[b].tool_use_id = ""
                  /\ ~ conversation[t].blocks[b].is_error

----------------------------------------------------------------------------
(* C13: when the reconstruction is empty (the empty session file         *)
(* included) export_session raises 'No messages found in session' before *)
(* any output file is opened or written, cmd_export reports that message *)
(* and exits with a non-zero status; an output file is only ever written *)
(* after a non-empty reconstruction.                                     *)

NoMessagesFound == "No messages found in session"

C13_EmptyNeverWritten ==
    [][/\ (pc = "done" /\ conversation = <<>>) =>
              (pc' = "raised" /\ exc' = "ValueError" /\ ~ output'.exists)
       /\ (pc = "raised" /\ exc = "ValueError") =>
              (/\ pc' = "exited"
               /\ stderr' = NoMessagesFound
               /\ exit_code' = 1
               /\ ~ output'.exists)
       /\ (output'.exists /\ ~ output.exists) =>
              (pc = "done" /\ conversation # <<>>)]_vars

\* a session file of blank prompts only has been reported and nothing
\* has been written
C13_Witness ==
    /\ pc = "exited"
    /\ lines # <<>>
    /\ conversation = <<>>
    /\ stderr = NoMessagesFound
    /\ exit_code = 1
    /\ ~ output.exists

----------------------------------------------------------------------------
(* C14: in cmd_export every I/O failure while reading the session file   *)
(* or writing the output file ends in a clear error message and a        *)
(* non-zero exit status, never in an uncaught exception.  As stated: the *)
(* process never ends in the interpreter's traceback.                    *)

C14_NoUncaughtException == pc # "crashed"

----------------------------------------------------------------------------
(* C15: every element parse_jsonl returns is a JSON object; a line that  *)
(* holds a JSON value of another kind (number, string, list, null) is    *)
(* skipped like a malformed line.                                        *)

C15_OnlyObjects == \A j \in 1..Len(lines) : IsDict(lines[j])

----------------------------------------------------------------------------
(* C16: parse_jsonl returns the records in the order of their lines; it  *)
(* returns at most as many records as the file has non-blank lines, and  *)
(* exactly as many when every non-blank line is well-formed JSON; a      *)
(* malformed line is skipped and changes nothing for the lines after it. *)

IsNonBlankLine(raw) == Strip(raw) # <<>>

IsWellFormedLine(raw) == IsNonBlankLine(raw) /\ IsJson(Strip(raw))

\* the values of the well-formed lines, in the order of the file
Decoded(f) ==
    LET good == SelectSeq(f, IsWellFormedLine)
    IN  [j \in 1..Len(good) |-> json_loads(Strip(good[j]))]

C16_FileOrder ==
    LET nonblank == SelectSeq(file, IsNonBlankLine) IN
    /\ lines = Decoded(file)
    /\ Len(lines) <= Len(nonblank)
    /\ (\A j \in 1..Len(nonblank) : IsJson(Strip(nonblank[j])))
           => Len(lines) = Len(nonblank)

\* a malformed line between the lines of two different records
C16_Witness ==
    /\ pc = "extract"
    /\ Len(file) = 3
    /\ IsWellFormedLine(file[1])
    /\ IsNonBlankLine(file[2]) /\ ~ IsJson(Strip(file[2]))
    /\ IsWellFormedLine(file[3])
    /\ Len(lines) = 2
    /\ lines[1] = json_loads(Strip(file[1]))
    /\ lines[2] = json_loads(Strip(file[3]))
    /\ lines[1] # lines[2]

----------------------------------------------------------------------------
(* C17: extract_metadata sets session_id, git_branch, cwd and date from  *)
(* the first event, of any type and sidechain or not, that carries a     *)
(* non-empty value for it, and model from the first assistant-typed      *)
(* event whose message carries a non-empty model; a field that is set is *)
(* never overwritten by a later event, and a field without a source      *)
(* stays the empty string.                                               *)

MetaFields == {"session_id", "model", "date", "git_branch", "cwd", "project"}

EmptyField(f) == IF f = "date" THEN 0 ELSE ""

Prefix(log, k) == SubSeq(log, 1, k)

\* the records of log that carry a value for key
Sources(log, key, empty) == {i \in 1..Len(log) : Get(log[i], key, empty) # empty}

ModelSources(log) ==
    {i \in 1..Len(log) :
        Get(log[i], "type", None) = "assistant" /\ ModelOf(log[i]) # ""}

C17_FirstValueKept ==
    pc = "pass1" =>
        /\ meta.session_id = FirstValue(lines, "sessionId", "")
        /\ meta.git_branch = FirstValue(lines, "gitBranch", "")
        /\ meta.cwd = FirstValue(lines, "cwd", "")
        /\ meta.date = FirstValue(lines, "timestamp", 0)
        /\ meta.model = FirstModel(lines)
        /\ \A k \in 1..Len(lines) : \A f \in MetaFields :
               extract_metadata(Prefix(lines, k - 1))[f] # EmptyField(f) =>
                   extract_metadata(Prefix(lines, k))[f] =
                       extract_metadata(Prefix(lines, k - 1))[f]
        /\ Sources(lines, "sessionId", "") = {} => meta.session_id = ""
        /\ Sources(lines, "gitBranch", "") = {} => meta.git_branch = ""
        /\ Sources(lines, "cwd", "") = {} => meta.cwd = ""
        /\ Sources(lines, "timestamp", 0) = {} => meta.date = 0
        /\ ModelSources(lines) = {} => meta.model = ""
        /\ meta.project = ""

\* a user event that names a model and a session comes first, two
\* assistant events with other values follow: the session is the user
\* event's, the model the first assistant event's
C17_Witness ==
    /\ pc = "pass1"
    /\ Len(lines) = 3
    /\ Get(lines[1], "type", None) = "user" /\ ModelOf(lines[1]) = "mu"
    /\ Get(lines[2], "isSidechain", FALSE) /\ ModelOf(lines[2]) = "mo1"
    /\ ModelOf(lines[3]) = "mo2"
    /\ meta.session_id = "s2"
    /\ meta.model = "mo1"
    /\ meta.date = 2

----------------------------------------------------------------------------
(* C18: _normalize_tool_result leaves a text of at most TRUNCATE_LIMIT   *)
(* characters unchanged; a longer text becomes its first TRUNCATE_LIMIT  *)
(* characters followed by the marker that states the length of the text  *)
(* before truncation; so it is at TRUNCATE_LIMIT and TRUNCATE_LIMIT + 1. *)

\* the raw tool_result blocks of the events that carry one, in log order
RECURSIVE RawResults(_)
RawResults(rel) ==
    IF rel = <<>> THEN <<>>
    ELSE LET c == UserContent(Get(Head(rel), "message", EmptyDict)) IN
         (IF Get(Head(rel), "type", None) = "user" /\ IsList(c)
          THEN SelectSeq(c.items, IsToolResult) ELSE <<>>)
         \o RawResults(Tail(rel))

IsResultBlock(b) == b.type = "tool_result"

\* the tool_result blocks of the turns, in turn order
RECURSIVE OutResults(_)
OutResults(conv) ==
    IF conv = <<>> THEN <<>>
    ELSE SelectSeq(Head(conv).blocks, IsResultBlock) \o OutResults(Tail(conv))

MarkerOpening == 18

MarkerClosing == 13

\* the decimal number a truncation marker states
MarkerDigits(marker) ==
    SubSeq(marker, MarkerOpening + 1, Len(marker) - MarkerClosing)

\* out is what the claim says of the text t
TruncatedAsClaimed(t, out) ==
    IF Len(t) <= TRUNCATE_LIMIT THEN out = t
    ELSE LET marker == SubSeq(out, TRUNCATE_LIMIT + 1, Len(out)) IN
         /\ SubSeq(out, 1, TRUNCATE_LIMIT) = SubSeq(t, 1, TRUNCATE_LIMIT)
         /\ marker = TruncationMarker(Len(t))
         /\ IsIntText(MarkerDigits(marker))
         /\ IntValue(MarkerDigits(marker)) = Len(t)

C18_TruncatedAboveLimit ==
    pc = "done" =>
        LET raws == RawResults(relevant)
            outs == OutResults(conversation)
        IN  /\ Len(outs) = Len(raws)
            /\ \A j \in 1..Len(raws) :
                   TruncatedAsClaimed(
                       ResultText(Get(raws[j], "content", StrOf(<<>>))),
                       outs[j].text)

\* a result of TRUNCATE_LIMIT characters and one of TRUNCATE_LIMIT + 1
C18_Witness ==
    /\ pc = "done"
    /\ Len(RawResults(relevant)) = 2
    /\ Len(ResultText(RawResults(relevant)[1].content)) = TRUNCATE_LIMIT
    /\ Len(ResultText(RawResults(relevant)[2].content)) = TRUNCATE_LIMIT + 1
    /\ Len(OutResults(conversation)[1].text) = TRUNCATE_LIMIT
    /\ Len(OutResults(conversation)[2].text) > TRUNCATE_LIMIT + 1

----------------------------------------------------------------------------
(* C19: _normalize_tool_result copies tool_use_id, resolves tool_name    *)
(* through the map with "unknown" for an id that is not in it, takes     *)
(* is_error as false when absent, and derives the text from the content: *)
(* of a list, the text fields of its items of kind text joined by a line *)
(* feed, the other items dropped; of a string, the string; of any other  *)
(* value, its string conversion.                                         *)

IsTextItem(item) == Get(item, "type", None) = "text"

TextOf(item) == Get(item, "text", <<>>)

\* the text the claim derives from the content c
DerivedText(c) ==
    IF c.kind = "list"
    THEN LET kept == SelectSeq(c.items, IsTextItem)
         IN  Join(<<"\n">>, [j \in 1..Len(kept) |-> TextOf(kept[j])])
    ELSE IF c.kind = "str" THEN c.val
    ELSE IF c.kind = "int" THEN Str(c.val)
    ELSE <<"N", "o", "n", "e">>

C19_NormalizedFields ==
    pc = "done" =>
        LET raws == RawResults(relevant)
            outs == OutResults(conversation)
        IN  /\ Len(outs) = Len(raws)
            /\ \A j \in 1..Len(raws) :
                   /\ outs[j].tool_use_id = raws[j].tool_use_id
                   /\ outs[j].tool_name =
                          (IF raws[j].tool_use_id \in DOMAIN tool_map
                           THEN tool_map[raws[j].tool_use_id] ELSE "unknown")
                   /\ outs[j].is_error =
                          ("is_error" \in DOMAIN raws[j] /\ raws[j].is_error)
                   /\ outs[j].text = Truncate(DerivedText(raws[j].content))

\* after the tool_use of t1: a list with an item that is not text, under
\* an id without tool_use, then a null and a number
C19_Witness ==
    /\ pc = "done"
    /\ "t1" \in DOMAIN tool_map
    /\ Len(OutResults(conversation)) = 3
    /\ LET outs == OutResults(conversation) IN
       /\ outs[1].tool_name = "unknown"
       /\ outs[1].text = <<"a", "\n", "b", " ">>
       /\ outs[2].tool_name = "grep"
       /\ outs[2].text = <<"N", "o", "n", "e">>
       /\ outs[3].text = <<"4", "2">>
       /\ ~ outs[3].is_error

----------------------------------------------------------------------------
(* C20: a user event of the main chain with list content and without    *)
(* tool_result block adds exactly one user turn, whose single text block *)
(* is the non-blank text fragments of that event joined by a blank line  *)
(* in their order, or adds nothing when it has no such fragment; the     *)
(* turns before it are left as they are, so that two such events in a    *)
(* row make two user turns.                                              *)

\* the non-blank text fragments of the items of a user event
PromptFragments(items) ==
    LET kept == SelectSeq(items, IsTextItem)
    IN  NonBlank([j \in 1..Len(kept) |-> TextOf(kept[j])])

AtUserPrompt ==
    /\ AtUser
    /\ IsList(CurContent)
    /\ ~ \E j \in 1..Len(CurContent.items) :
             Get(CurContent.items[j], "type", None) = "tool_result"

C20_OneTurnPerPromptEvent ==
    [][AtUserPrompt =>
          LET frags == PromptFragments(CurContent.items) IN
          IF frags = <<>> THEN conversation' = conversation
          ELSE conversation' =
                   Append(conversation,
                          [role      |-> "user",
                           timestamp |-> Get(relevant[idx], "timestamp", 0),
                           blocks    |-> <<[type |-> "text",
                                            text |-> Join(<<"\n", "\n">>,
                                                          frags)]>>])]_vars

\* two events in a row, each with a blank fragment between two others
C20_Witness ==
    /\ pc = "done"
    /\ Len(lines) = 2
    /\ Len(conversation) = 2
    /\ origin = <<1, 2>>
    /\ \A t \in 1..2 :
           /\ IsList(UserContent(lines[t].message))
           /\ Len(UserContent(lines[t].message).items) = 3
           /\ conversation[t].role = "user"
           /\ conversation[t].timestamp = t
           /\ conversation[t].blocks =
                  <<[type |-> "text", text |-> <<"a", "\n", "\n", "b", " ">>]>>

----------------------------------------------------------------------------
(* The session browser *)

\* C21: a step of the browser loop that reads q or Esc in normal mode (no
\* filter being typed, no help overlay) ends the loop, whether the list or
\* the preview pane has the focus.
C21_QuitKeyTerminates ==
    [][(pc = "loop" /\ ~ show_help /\ ~ filter_mode /\ last_key' \in QuitKeys)
          => (pc' = "quit")]_vars

\* two item lists hold the same items in the same order
SameItems(a, b) ==
    /\ Len(a) = Len(b)
    /\ \A j \in 1..Len(a) :
          /\ a[j].kind = b[j].kind
          /\ a[j].project = b[j].project
          /\ a[j].data = b[j].data

\* C27: while no filter is being typed, the items on display are the list
\* _build_items makes of the sessions, the current filter_text and the
\* current set of collapsed projects.
C27_ItemsMatchFilter ==
    (pc \in {"loop", "quit"} /\ ~ filter_mode)
        => SameItems(list_items, BuildItems(filter_text, collapsed))

\* C28: the cursor is a valid index of the item list: 0 when the list is
\* empty, otherwise at least 0 and less than the number of items.
C28_CursorValid ==
    IF list_items = <<>> THEN cursor = 0
    ELSE 0 <= cursor /\ cursor < Len(list_items)

\* a page down has taken the cursor to the last item of a list that a
\* collapsed project has made shorter
C28_Witness ==
    /\ last_key = "PgDn"
    /\ collapsed # {}
    /\ Len(list_items) > 1
    /\ cursor = Len(list_items) - 1

----------------------------------------------------------------------------
(* The order of the blocks pass 1 accumulates *)

\* pass 1 has run over the whole filtered log and pass 2 has not started
Pass1Done == pc = "pass2" /\ idx = 1

\* the raw blocks of every kind delivered for logical message id, in log
\* order
RECURSIVE FlatBlocks(_, _)
FlatBlocks(rel, id) ==
    IF rel = <<>> THEN <<>>
    ELSE (IF IsFragmentOf(Head(rel), id)
          THEN Head(rel).message.content.items ELSE <<>>)
         \o FlatBlocks(Tail(rel), id)

\* the accumulated block a raw block becomes
Accumulated(block) ==
    IF block.type = "text" THEN [type |-> "text", text |-> block.text]
    ELSE IF block.type = "thinking"
    THEN [type |-> "thinking", text |-> block.thinking]
    ELSE [type      |-> "tool_use",
          tool_id   |-> Get(block, "id", ""),
          tool_name |-> Get(block, "name", "unknown"),
          input     |-> Get(block, "input", EmptyDict)]

\* positions in flat: the non-blank fragments of a kind, and the first
\* delivery of each invocation id
FragmentAt(flat, type, field) ==
    {j \in 1..Len(flat) : /\ Get(flat[j], "type", "") = type
                          /\ IsNonBlank(Get(flat[j], field, <<>>))}

FirstToolAt(flat) ==
    {j \in 1..Len(flat) :
        /\ Get(flat[j], "type", "") = "tool_use"
        /\ \A k \in 1..(j - 1) :
              ~ (/\ Get(flat[k], "type", "") = "tool_use"
                 /\ Get(flat[k], "id", "") = Get(flat[j], "id", ""))}

\* the blocks of flat at the positions of set at, in the order of flat
Picked(flat, at) ==
    LET Chosen(j) == j \in at
        order     == SelectSeq([j \in 1..Len(flat) |-> j], Chosen)
    IN  [n \in 1..Len(order) |-> Accumulated(flat[order[n]])]

LastOf(at) == IF at = {} THEN {} ELSE {Max(at)}

\* the list of the slot model: thinking, text, tool blocks
SlotList(id) ==
    LET flat == FlatBlocks(relevant, id)
    IN  Picked(flat, LastOf(FragmentAt(flat, "thinking", "thinking")))
        \o Picked(flat, LastOf(FragmentAt(flat, "text", "text")))
        \o Picked(flat, FirstToolAt(flat))

\* the list in delivery order: thinking first, then the text block and the
\* tool blocks ordered by the last non-blank text fragment and the first
\* delivery of each invocation
DeliveryList(id) ==
    LET flat == FlatBlocks(relevant, id)
    IN  Picked(flat, LastOf(FragmentAt(flat, "thinking", "thinking")))
        \o Picked(flat, LastOf(FragmentAt(flat, "text", "text"))
                        \cup FirstToolAt(flat))

\* C22 as stated: the block list pass 1 builds for a logical message is the
\* slot model's list: the thinking block if any, then the text block if
\* any, then the tool_use blocks in first-seen order; the text block never
\* comes after a tool_use block.
C22_SlotOrder ==
    Pass1Done =>
        \A id \in DOMAIN assistant_msgs :
            /\ assistant_msgs[id].blocks = SlotList(id)
            /\ \A j, k \in 1..Len(assistant_msgs[id].blocks) :
                  (/\ assistant_msgs[id].blocks[j].type = "tool_use"
                   /\ assistant_msgs[id].blocks[k].type = "text") => k < j

\* C22 amended: the block list pass 1 builds for a logical message is the
\* thinking block if any, then the text block and the tool_use blocks in
\* the order of delivery, the text block standing where its last non-blank
\* fragment was delivered and each tool_use block where its invocation id
\* was first delivered.
C22_DeliveryOrder ==
    Pass1Done =>
        \A id \in DOMAIN assistant_msgs :
            assistant_msgs[id].blocks = DeliveryList(id)

\* a message whose text arrived after its tool_use block, and whose
\* thinking arrived last
C22_Witness ==
    /\ Pass1Done
    /\ "m1" \in DOMAIN assistant_msgs
    /\ Len(assistant_msgs["m1"].blocks) = 3
    /\ assistant_msgs["m1"].blocks[1].type = "thinking"
    /\ assistant_msgs["m1"].blocks[2].type = "tool_use"
    /\ assistant_msgs["m1"].blocks[3].type = "text"

----------------------------------------------------------------------------
(* The timestamp and stop_reason of a logical message *)

\* the positions in the filtered log of the assistant events carrying
\* message id, whatever their content
EventsWithId(id) ==
    {i \in 1..Len(relevant) : /\ Get(relevant[i], "type", None) = "assistant"
                              /\ MsgIdOf(relevant[i]) = id}

\* the latest non-empty timestamp among them, 0 when there is none
LatestTimestamp(id) ==
    LET at == {i \in EventsWithId(id) : Get(relevant[i], "timestamp", 0) # 0}
    IN  IF at = {} THEN 0 ELSE relevant[Max(at)].timestamp

\* the latest non-empty stop_reason among them, None when there is none
LatestStopReason(id) ==
    LET at == {i \in EventsWithId(id) :
                  Get(relevant[i].message, "stop_reason", None) \notin {None, ""}}
    IN  IF at = {} THEN None ELSE relevant[Max(at)].message.stop_reason

\* C23: the timestamp of an emitted assistant turn is the latest non-empty
\* timestamp among all the events of the filtered log that carry its
\* message id, whatever the shape of their content, and the stop_reason of
\* its entry is the latest non-empty stop_reason among them.
C23_LatestTimestamp ==
    Emitting =>
        \A t \in AssistantTurns :
            /\ conversation[t].timestamp = LatestTimestamp(TurnMsgId(t))
            /\ assistant_msgs[TurnMsgId(t)].stop_reason
                   = LatestStopReason(TurnMsgId(t))

----------------------------------------------------------------------------
(* The names of the invocations in the output *)

\* C25: in the output of build_conversation, a tool_result block whose
\* tool_use_id is the tool_id of a tool_use block of the output carries the
\* tool_name of that tool_use block.
C25_ResultNamedAsItsToolUse ==
    (pc = "done") =>
        \A t, u \in Turns :
            \A j \in 1..Len(conversation[t].blocks) :
                \A k \in 1..Len(conversation[u].blocks) :
                    (/\ conversation[t].blocks[j].type = "tool_result"
                     /\ conversation[u].blocks[k].type = "tool_use"
                     /\ conversation[t].blocks[j].tool_use_id
                            = conversation[u].blocks[k].tool_id)
                        => (conversation[t].blocks[j].tool_name
                                = conversation[u].blocks[k].tool_name)

----------------------------------------------------------------------------
(* Assistant events without message id *)

\* the positions in the filtered log of the assistant events whose message
\* id is missing or empty
NoIdEvents ==
    {i \in 1..Len(relevant) : /\ Get(relevant[i], "type", None) = "assistant"
                              /\ MsgIdOf(relevant[i]) = ""}

\* the assistant turns made of them
NoIdTurns == {t \in AssistantTurns : TurnMsgId(t) = ""}

NotResult(b) == b.type # "tool_result"

\* C26: the assistant events of the filtered log that carry no message id
\* form one logical message under the empty id: the output has at most one
\* assistant turn for them, it stands at the position of the first of them
\* and holds the blocks merged from all of them, whatever lies between.
C26_NoIdIsOneMessage ==
    (pc = "done") =>
        /\ Cardinality(NoIdTurns) <= 1
        /\ (NoIdTurns # {}) <=> (DeliveryList("") # <<>>)
        /\ \A t \in NoIdTurns :
              /\ origin[t] = Min(NoIdEvents)
              /\ SelectSeq(conversation[t].blocks, NotResult) = DeliveryList("")
              /\ \A u \in Turns :
                    (u < t) => \A i \in NoIdEvents : origin[u] < i

\* two events without id on both sides of a user prompt, merged into one
\* turn that stands before the prompt
C26_Witness ==
    /\ pc = "done"
    /\ Len(relevant) = 3
    /\ NoIdEvents = {1, 3}
    /\ Len(conversation) = 2
    /\ NoIdTurns = {1}
    /\ conversation[2].role = "user"
    /\ Len(conversation[1].blocks) = 2
    /\ conversation[1].blocks[1].type = "thinking"
    /\ conversation[1].blocks[2].type = "text"

----------------------------------------------------------------------------
(* The cache of previews *)

\* a step of _get_preview that drops an entry from the cache
Evicting == DOMAIN preview_cache \ DOMAIN preview_cache' # {}

\* C24: when the cache is full and the preview of a new session is
\* inserted, the entry that leaves the cache is the least recently used
\* one, an insertion and a request answered from the cache both counting
\* as a use.
C24_EvictsLeastRecentlyUsed ==
    [][Evicting => (DOMAIN preview_cache \ DOMAIN preview_cache' = {Head(used)})]_vars

\* C29: the cache holds at most cache_max previews, the order list has no
\* duplicates and lists exactly the keys of the cache, and no session
\* whose file is missing is in the cache.
C29_CacheBounded ==
    /\ Cardinality(DOMAIN preview_cache) <= cache_max
    /\ Len(preview_cache_order) = Cardinality(Range(preview_cache_order))
    /\ Range(preview_cache_order) = DOMAIN preview_cache
    /\ \A n \in MissingFile : SessionId(n) \notin DOMAIN preview_cache

\* the cache is full, the first session has been evicted, and the session
\* without file has been requested on the way
C29_Witness ==
    /\ Cardinality(DOMAIN preview_cache) = cache_max
    /\ SessionId(1) \notin DOMAIN preview_cache
    /\ \A n \in MissingFile : n <= seen_upto
    /\ revisits > 0

----------------------------------------------------------------------------
(* The payload in the document *)

DataOpening ==
    <<"i", "d", "=", "\"", "c", "o", "n", "v", "e", "r", "s", "a", "t", "i",
      "o", "n", "-", "d", "a", "t", "a", "\"", ">">>

ScriptClosing ==
    <<"<", "/", "s", "c", "r", "i", "p", "t", ">">>

\* textContent of the element with id conversation-data
ScriptContent(html) ==
    LET start == Find(html, DataOpening, 1) + Len(DataOpening)
        stop  == Find(html, ScriptClosing, start)
    IN  SubSeq(html, start, stop - 1)

\* JSON.parse of the body of a string literal
RECURSIVE Unescape(_)
Unescape(body) ==
    IF body = <<>> THEN <<>>
    ELSE IF Head(body) = "\\" /\ Len(body) > 1
    THEN <<IF body[2] = "n" THEN "\n" ELSE body[2]>> \o Unescape(Tail(Tail(body)))
    ELSE <<Head(body)>> \o Unescape(Tail(body))

\* the character at p of s follows an odd number of backslashes
Escaped(s, p) ==
    Max({r \in 0..(p - 1) : \A k \in 1..r : s[p - k] = "\\"}) % 2 = 1

\* JSON.parse on the string literals of a JSON text: their values in the
\* order of the text, each marked as a key when a colon follows it
RECURSIVE JsonStrings(_)
JsonStrings(s) ==
    LET open   == Find(s, <<"\"">>, 1)
        closes == {p \in (open + 1)..Len(s) : s[p] = "\"" /\ ~ Escaped(s, p)}
    IN  IF open = 0 \/ closes = {} THEN <<>>
        ELSE LET close == Min(closes) IN
             <<[value |-> Unescape(SubSeq(s, open + 1, close - 1)),
                key   |-> close < Len(s) /\ s[close + 1] = ":"]>>
             \o JsonStrings(SubSeq(s, close + 1, Len(s)))

\* the string values a parsed JSON text has under key k, in order
ValuesOf(json, k) ==
    LET tokens == JsonStrings(json)
        IsValue(j) == /\ j > 1
                      /\ ~ tokens[j].key
                      /\ tokens[j - 1].key
                      /\ tokens[j - 1].value = k
        at == SelectSeq([j \in 1..Len(tokens) |-> j], IsValue)
    IN  [n \in 1..Len(at) |-> tokens[at[n]].value]

\* the texts of the messages, in order
MessageTexts(messages) == [j \in 1..Len(messages) |-> messages[j].blocks[1].text]

\* C30: the content of the conversation-data element of the document is
\* the JSON serialization of {messages, metadata} with only "</" escaped,
\* and parsing it gives back the texts of the messages, whatever strings
\* they are, the placeholders of the template included.
C30_PayloadOpaque ==
    (pc = "written") =>
        /\ ScriptContent(output.html)
               = EscapeClosing(JsonDumps(output.messages, output.metadata))
        /\ ValuesOf(ScriptContent(output.html), <<"t", "e", "x", "t">>)
               = MessageTexts(output.messages)

====
